---- MODULE Spec2Model ----
(***************************************************************************)
(* The OpenSCAD-to-scene converter of the repository, as a state machine.  *)
(*                                                                         *)
(* Source text is a sequence of tokens; the concatenation of the tokens is *)
(* the text handed to parseOpenSCADToThreeJS.  Every regular expression of *)
(* the source is translated to an operator over token sequences.           *)
(*                                                                         *)
(* Numbers: a JavaScript number f is held as the integer 2*f, so that the  *)
(* half extents of a cube (size / 2) are exact.  An angle in radians is    *)
(* held in units of pi/720, so that Math.PI / 2 is 360 and x * Math.PI/180 *)
(* of a held number is twice that number.  NaN and undefined are two       *)
(* distinguished values outside the range of the numbers used.  A token    *)
(* is never a part of a longer word, and two word tokens are never         *)
(* adjacent in a text.                                                     *)
(***************************************************************************)
EXTENDS Integers, Sequences, FiniteSets, TLC

VARIABLES
  variant,     \* "utils": src/src/utils/openscadConverter.ts, "app": src/unnamed/part_000
  prog,        \* the statements the source text is written from (the input)
  code,        \* the source text: the argument of parseOpenSCADToThreeJS
  pc,          \* position inside parseOpenSCADToThreeJS
  cleanCode,   \* the text after comment removal
  variables,   \* the variable table (variant "app")
  lineNo,      \* index of the next line of the line loop
  group,       \* children of the group being built
  console,     \* what was written with console.warn / console.error
  result,      \* what the call produced: a returned group or a thrown error
  \* one call of generateSTL (src/src/utils/stlExporter.ts)
  xGroup,      \* the group handed to generateSTL
  xPc,         \* position inside generateSTL
  xMeshes,     \* the meshes collected by group.traverse
  xNext,       \* index of the next mesh of meshes.forEach
  xStl,        \* the text written so far, line by line
  xResult,     \* what the call produced: the returned text or a thrown error
  \* the code state of App and one mounted OpenSCADRenderer (GeminiService.ts 97-432)
  openscadCode,  \* App state: the text shown by the editor and handed to the viewer
  sceneRef,      \* TRUE once the initialisation effect has made the scene
  sceneReady,    \* state sceneReady as the last render saw it
  modelGroupRef, \* the model held: null or the group built from a text
  scene,         \* the models that are children of the scene
  disposed,      \* the models whose geometries and materials were disposed
  error,         \* state error
  isRendering,   \* state isRendering
  isExporting,   \* state isExporting
  isDragging,    \* ref isDragging
  lastPos,       \* ref lastPos
  autoRotate,    \* ref autoRotate
  camera,        \* the model the camera was fitted to and the wheel travel since
  downloads,     \* the STL texts handed to downloadSTL, in order
  uncaught,      \* the message of an error that left an event handler ("" for none)
  parseLog,      \* the texts handed to parseOpenSCADToThreeJS by the viewer, in order
  burst,         \* the code changes, and the evaluations, since the last pause
  clicks,        \* how far the browser is in delivering a double click
  autoBefore,    \* autoRotate when the click sequence under way began (TRUE with none)
  \* the App component (src/unnamed/part_000 14-164) and the browser it runs in
  localStorage,     \* the items of window.localStorage
  envApiKey,        \* import.meta.env.VITE_GEMINI_API_KEY
  mounted,          \* TRUE while the page is open and App is mounted
  messages,         \* state messages
  isLoading,        \* state isLoading
  showApiKeyInput,  \* state showApiKeyInput
  geminiServiceRef, \* the key of the GeminiService held, NoService for null
  inflight,         \* the calls of generateOpenSCAD that have not settled
  sent,             \* how many calls of generateOpenSCAD were made
  appLast,          \* the handler of App that ran last
  resetClean,       \* TRUE from a reset until the user sends a message or edits the code
  \* one call of GeminiService.generateOpenSCAD (GeminiService.ts 18-94)
  gOutcome,         \* what model.generateContent gives: a reply text or a rejection
  gPc,              \* position inside generateOpenSCAD
  gResult           \* what the call produced: a response or a thrown error

vars == <<variant, prog, code, pc, cleanCode, variables, lineNo, group, console, result>>
stlVars == <<xGroup, xPc, xMeshes, xNext, xStl, xResult>>
viewVars ==
  <<openscadCode, sceneRef, sceneReady, modelGroupRef, scene, disposed, error,
    isRendering, isExporting, isDragging, lastPos, autoRotate, camera, downloads,
    uncaught, parseLog, burst, clicks, autoBefore>>
viewOnlyVars ==
  <<sceneRef, sceneReady, modelGroupRef, scene, disposed, error,
    isRendering, isExporting, isDragging, lastPos, autoRotate, camera, downloads,
    uncaught, parseLog, burst, clicks, autoBefore>>
appVars ==
  <<localStorage, envApiKey, mounted, messages, isLoading, showApiKeyInput,
    geminiServiceRef, inflight, sent, appLast, resetClean>>
gemVars == <<gOutcome, gPc, gResult>>
allVars == <<vars, stlVars, viewVars, appVars, gemVars>>
notConverter == <<stlVars, viewVars, appVars, gemVars>>
notStl == <<vars, viewVars, appVars, gemVars>>
notView == <<vars, stlVars, appVars, gemVars>>
notApp == <<vars, stlVars, viewOnlyVars, gemVars>>
notGemini == <<vars, stlVars, viewVars, appVars>>

----------------------------------------------------------------------------
(* Numbers *)

NaN == -1000001
undefined == -1000002

\* The numeric literals of the inputs and their values.
NumTok == {"0", "1", "2", "3", "90"}
NumVal(t) ==
  CASE t = "0" -> 0 [] t = "1" -> 1 [] t = "2" -> 2 [] t = "3" -> 3 [] t = "90" -> 90

IsSpace(t) == t \in {" ", "\n"}

\* The first index j >= i of s with s[j] not white space (Len(s)+1 if none): \s*
RECURSIVE SkipWs(_, _)
SkipWs(s, i) ==
  IF i > Len(s) THEN Len(s) + 1
  ELSE IF IsSpace(s[i]) THEN SkipWs(s, i + 1) ELSE i

\* The first index j >= i of s with s[j] \in stop (0 if none).
RECURSIVE FirstIdx(_, _, _)
FirstIdx(s, i, stop) ==
  IF i > Len(s) THEN 0
  ELSE IF s[i] \in stop THEN i ELSE FirstIdx(s, i + 1, stop)

\* The last index j in i..hi of s with s[j] \in stop (0 if none).
RECURSIVE LastIdx(_, _, _, _)
LastIdx(s, i, hi, stop) ==
  IF hi < i THEN 0
  ELSE IF s[hi] \in stop THEN hi ELSE LastIdx(s, i, hi - 1, stop)

\* The end of the maximal run of tokens outside stop that starts at i
\* (i - 1 if the run is empty): [^...]* read greedily.
RunEnd(s, i, stop) ==
  LET j == FirstIdx(s, i, stop) IN IF j = 0 THEN Len(s) ELSE j - 1

\* String.prototype.trim
RECURSIVE TrimRight(_)
TrimRight(s) ==
  IF s = <<>> THEN s
  ELSE IF IsSpace(s[Len(s)]) THEN TrimRight(SubSeq(s, 1, Len(s) - 1)) ELSE s

Trim(s) == TrimRight(SubSeq(s, SkipWs(s, 1), Len(s)))

\* String.prototype.split(sep): the pieces between the occurrences of sep.
RECURSIVE Split(_, _)
Split(s, sep) ==
  LET j == FirstIdx(s, 1, {sep}) IN
  IF j = 0 THEN <<s>>
  ELSE <<SubSeq(s, 1, j - 1)>> \o Split(SubSeq(s, j + 1, Len(s)), sep)

\* parseFloat: leading white space is skipped, the longest numeric prefix is
\* converted, and NaN is the result when there is none.
parseFloat(s) ==
  LET i == SkipWs(s, 1) IN
  IF i <= Len(s) /\ s[i] \in NumTok THEN 2 * NumVal(s[i]) ELSE NaN

\* x / 2
Half(x) == IF x \in {NaN, undefined} THEN NaN ELSE x \div 2

\* Math.PI / 2
HalfPi == 360

\* x * Math.PI / 180
DegToRad(x) == IF x \in {NaN, undefined} THEN NaN ELSE 2 * x

\* x || d
OrElse(x, d) == IF x \in {NaN, undefined, 0} THEN d ELSE x

\* a[i] of a JavaScript array: undefined beyond the end
At(a, i) == IF i <= Len(a) THEN a[i] ELSE undefined

\* String.prototype.includes for a needle of whole tokens
Includes(s, needle) ==
  \E p \in 1..Len(s) :
    /\ p + Len(needle) - 1 <= Len(s)
    /\ SubSeq(s, p, p + Len(needle) - 1) = needle

StartsWith(s, t) == Len(s) >= 1 /\ s[1] = t

\* The least member of a non-empty set of integers
Least(S) == CHOOSE x \in S : \A y \in S : x <= y

null == [isNull |-> TRUE]

----------------------------------------------------------------------------
(* Scene objects *)

Vec3(x, y, z) == <<x, y, z>>

\* Vector3.set(x, y, z) on the vector v: z stays what it was when the call
\* gives none (three.js: "if (z === undefined) z = this.z"); x and y are taken
\* as they come.
Vector3Set(v, x, y, z) == <<x, y, IF z = undefined THEN v[3] ELSE z>>

\* new THREE.Mesh(geometry, new THREE.MeshPhongMaterial({color, opacity}))
Mesh(shape, args, color, opacity) ==
  [isNull |-> FALSE, type |-> "Mesh", shape |-> shape, args |-> args,
   color |-> color, opacity |-> opacity,
   position |-> Vec3(0, 0, 0), rotation |-> Vec3(0, 0, 0), children |-> <<>>]

\* new THREE.Group()
Group ==
  [isNull |-> FALSE, type |-> "Group", shape |-> "none", args |-> <<>>,
   color |-> "none", opacity |-> 0,
   position |-> Vec3(0, 0, 0), rotation |-> Vec3(0, 0, 0), children |-> <<>>]

----------------------------------------------------------------------------
(* Regular-expression matching over tokens *)

\* Tokens made of word characters only (\w+)
Keywords == {"cube", "sphere", "cylinder", "translate", "rotate",
             "difference", "union", "linear_extrude", "height"}
Idents == {"w", "bad", "syntax", "r", "h", "r1", "r2"}
IsWord(t) == t \in Keywords \cup Idents \cup NumTok

\* A successful match: the captured text and the index of its last token.
Match(cap, last) == [isNull |-> FALSE, cap |-> cap, last |-> last]

\* RegExp matching is leftmost: the match at the least start index.
FirstMatch(s, MatchAt(_, _)) ==
  LET ps == {p \in 1..Len(s) : ~MatchAt(s, p).isNull} IN
  IF ps = {} THEN null ELSE MatchAt(s, Least(ps))

\* s[p], s[p+1], ... are the tokens of lit
LitAt(s, p, lit) ==
  /\ p >= 1
  /\ p + Len(lit) - 1 <= Len(s)
  /\ SubSeq(s, p, p + Len(lit) - 1) = lit

\* \s*([^stop]+) at q: white space is skipped greedily and given back when the
\* capture would otherwise be empty.
CaptureRun(s, q, stop) ==
  LET f == SkipWs(s, q)
      e == RunEnd(s, f, stop) IN
  IF e >= f THEN Match(SubSeq(s, f, e), e)
  ELSE IF f > q THEN Match(SubSeq(s, f - 1, f - 1), f - 1)
  ELSE null

\* /cube\(\s*\[([^\]]+)\]\s*\)/ at p
cubeBracketAt(s, p) ==
  IF ~LitAt(s, p, <<"cube", "(">>) THEN null
  ELSE LET a == SkipWs(s, p + 2) IN
    IF ~LitAt(s, a, <<"[">>) THEN null
    ELSE LET b == FirstIdx(s, a + 1, {"]"}) IN
      IF b = 0 \/ b = a + 1 THEN null
      ELSE LET c == SkipWs(s, b + 1) IN
        IF LitAt(s, c, <<")">>) THEN Match(SubSeq(s, a + 1, b - 1), c) ELSE null

\* /cube\(\s*([^,\[\]]+)\s*\)/ at p: the white space after "(" is skipped,
\* and the capture runs from there to the last ")" of the run of characters
\* other than "," "[" "]" (white space before that ")" stays in the capture);
\* one white space is given back when the capture would otherwise be empty.
cubeSingleAt(s, p) ==
  IF ~LitAt(s, p, <<"cube", "(">>) THEN null
  ELSE LET q == p + 2
           f == SkipWs(s, q)
           k == LastIdx(s, q, RunEnd(s, q, {",", "[", "]"}), {")"}) IN
    IF k > f THEN Match(SubSeq(s, f, k - 1), k)
    ELSE IF k = f /\ f > q THEN Match(SubSeq(s, f - 1, f - 1), k)
    ELSE null

\* /sphere\((?:r\s*=\s*)?([^,)]+)/ at p
sphereAt(s, p) ==
  IF ~LitAt(s, p, <<"sphere", "(">>) THEN null
  ELSE LET q == p + 2
           e == SkipWs(s, q + 1)
           named == IF LitAt(s, q, <<"r">>) /\ LitAt(s, e, <<"=">>)
                    THEN CaptureRun(s, e + 1, {",", ")"}) ELSE null
           e2 == RunEnd(s, q, {",", ")"}) IN
    IF ~named.isNull THEN named
    ELSE IF e2 >= q THEN Match(SubSeq(s, q, e2), e2) ELSE null

\* /name\s*=\s*([^,)]+)/ at p, the name being the end of a token
NamedAt(s, p, names) ==
  IF ~(p <= Len(s) /\ s[p] \in names) THEN null
  ELSE LET e == SkipWs(s, p + 1) IN
    IF LitAt(s, e, <<"=">>) THEN CaptureRun(s, e + 1, {",", ")"}) ELSE null

\* the tokens whose text ends with h, r, r1, r2
EndsWithH == {"h"}
EndsWithR == {"r", "cylinder"}
hAt(s, p) == NamedAt(s, p, EndsWithH)
rAt(s, p) == NamedAt(s, p, EndsWithR)
r1At(s, p) == NamedAt(s, p, {"r1"})
r2At(s, p) == NamedAt(s, p, {"r2"})

\* /translate\(\[([^\]]+)\]\)/ and /rotate\(\[([^\]]+)\]\)/ at p
VectorArgAt(s, p, name) ==
  IF ~LitAt(s, p, <<name, "(", "[">>) THEN null
  ELSE LET b == FirstIdx(s, p + 3, {"]"}) IN
    IF b = 0 \/ b = p + 3 THEN null
    ELSE IF LitAt(s, b + 1, <<")">>) THEN Match(SubSeq(s, p + 3, b - 1), b + 1)
    ELSE null
translateAt(s, p) == VectorArgAt(s, p, "translate")
rotateAt(s, p) == VectorArgAt(s, p, "rotate")

\* /translate\([^)]+\)\s*(\w+\([^)]+\))/ and the same for rotate, at p
ChildAt(s, p, name) ==
  IF ~LitAt(s, p, <<name, "(">>) THEN null
  ELSE LET b == FirstIdx(s, p + 2, {")"}) IN
    IF b = 0 \/ b = p + 2 THEN null
    ELSE LET c == SkipWs(s, b + 1) IN
      IF ~(c + 1 <= Len(s) /\ IsWord(s[c]) /\ s[c + 1] = "(") THEN null
      ELSE LET d == FirstIdx(s, c + 2, {")"}) IN
        IF d = 0 \/ d = c + 2 THEN null ELSE Match(SubSeq(s, c, d), d)
translateChildAt(s, p) == ChildAt(s, p, "translate")
rotateChildAt(s, p) == ChildAt(s, p, "rotate")

\* /difference\(\)\s*\{([^}]+)\}/ at p
differenceAt(s, p) ==
  IF ~LitAt(s, p, <<"difference", "(", ")">>) THEN null
  ELSE LET a == SkipWs(s, p + 3) IN
    IF ~LitAt(s, a, <<"{">>) THEN null
    ELSE LET b == FirstIdx(s, a + 1, {"}"}) IN
      IF b = 0 \/ b = a + 1 THEN null ELSE Match(SubSeq(s, a + 1, b - 1), b)

\* s.split(',').map(x => parseFloat(x.trim()))
ParseFloats(s) ==
  LET parts == Split(s, ",") IN
  [i \in 1..Len(parts) |-> parseFloat(Trim(parts[i]))]

----------------------------------------------------------------------------
(* src/src/utils/openscadConverter.ts *)

\* The size the cube is built with, from the parsed parameters.
CubeSize(params) ==
  IF Len(params) = 1 THEN <<params[1], params[1], params[1]>>
  ELSE <<OrElse(At(params, 1), 2), OrElse(At(params, 2), 2), OrElse(At(params, 3), 2)>>

CubeMesh(size) ==
  [Mesh("Box", size, "667eea", "0.9") EXCEPT
     !.position = Vec3(Half(size[1]), Half(size[2]), Half(size[3]))]

parseCube(line) ==
  LET bracketMatch == FirstMatch(line, cubeBracketAt)
      singleMatch == FirstMatch(line, cubeSingleAt) IN
  IF ~bracketMatch.isNull THEN CubeMesh(CubeSize(ParseFloats(bracketMatch.cap)))
  ELSE IF ~singleMatch.isNull THEN CubeMesh(CubeSize(<<parseFloat(Trim(singleMatch.cap))>>))
  ELSE null

\* What parseCube writes to the console.
parseCubeLog(line) ==
  IF FirstMatch(line, cubeBracketAt).isNull /\ FirstMatch(line, cubeSingleAt).isNull
  THEN <<"warn: Could not parse cube">> ELSE <<>>

parseSphere(line) ==
  LET match == FirstMatch(line, sphereAt) IN
  IF match.isNull THEN null
  ELSE Mesh("Sphere", <<parseFloat(Trim(match.cap)), 32, 32>>, "764ba2", "0.9")

\* parseCylinder with the two radii given to CylinderGeometry in the other order
parseCylinderSwapped(line) ==
  LET hMatch == FirstMatch(line, hAt)
      rMatch == FirstMatch(line, rAt)
      r1Match == FirstMatch(line, r1At)
      r2Match == FirstMatch(line, r2At)
      height == IF ~hMatch.isNull THEN parseFloat(hMatch.cap) ELSE 2
      radius == IF ~rMatch.isNull THEN parseFloat(rMatch.cap) ELSE 2
      r1 == IF ~r1Match.isNull THEN parseFloat(r1Match.cap) ELSE radius
      r2 == IF ~r2Match.isNull THEN parseFloat(r2Match.cap) ELSE radius IN
  [Mesh("Cylinder", <<r1, r2, height, 32>>, "48bb78", "0.9") EXCEPT
     !.rotation = Vec3(HalfPi, 0, 0)]

parseCylinder(line) ==
  LET hMatch == FirstMatch(line, hAt)
      rMatch == FirstMatch(line, rAt)
      r1Match == FirstMatch(line, r1At)
      r2Match == FirstMatch(line, r2At)
      height == IF ~hMatch.isNull THEN parseFloat(hMatch.cap) ELSE 2
      radius == IF ~rMatch.isNull THEN parseFloat(rMatch.cap) ELSE 2
      r1 == IF ~r1Match.isNull THEN parseFloat(r1Match.cap) ELSE radius
      r2 == IF ~r2Match.isNull THEN parseFloat(r2Match.cap) ELSE radius IN
  [Mesh("Cylinder", <<r2, r1, height, 32>>, "48bb78", "0.9") EXCEPT
     !.rotation = Vec3(HalfPi, 0, 0)]

\* The child of a transform: parsed by the first word of the captured text.
parseChild(childLine) ==
  IF StartsWith(childLine, "cube") THEN parseCube(childLine)
  ELSE IF StartsWith(childLine, "sphere") THEN parseSphere(childLine)
  ELSE IF StartsWith(childLine, "cylinder") THEN parseCylinder(childLine)
  ELSE null

parseChildLog(childLine) ==
  IF StartsWith(childLine, "cube") THEN parseCubeLog(childLine) ELSE <<>>

AddChild(g, child) ==
  IF child.isNull THEN g ELSE [g EXCEPT !.children = Append(@, child)]

parseTranslate(line, fullCode) ==
  LET match == FirstMatch(line, translateAt)
      childMatch == FirstMatch(fullCode, translateChildAt) IN
  IF match.isNull THEN null
  ELSE IF childMatch.isNull THEN null
  ELSE LET coords == ParseFloats(match.cap) IN
    AddChild([Group EXCEPT !.position = Vector3Set(@, At(coords, 1), At(coords, 2), At(coords, 3))],
             parseChild(childMatch.cap))

parseTranslateLog(line, fullCode) ==
  LET match == FirstMatch(line, translateAt)
      childMatch == FirstMatch(fullCode, translateChildAt) IN
  IF match.isNull \/ childMatch.isNull THEN <<>> ELSE parseChildLog(childMatch.cap)

\* parseFloat(x) * Math.PI / 180 of every angle
Radians(angles) ==
  [i \in 1..Len(angles) |-> DegToRad(angles[i])]

parseRotate(line, fullCode) ==
  LET match == FirstMatch(line, rotateAt)
      childMatch == FirstMatch(fullCode, rotateChildAt) IN
  IF match.isNull THEN null
  ELSE LET angles == Radians(ParseFloats(match.cap))
           g == [Group EXCEPT !.rotation = Vec3(At(angles, 1), At(angles, 2), At(angles, 3))] IN
    IF childMatch.isNull THEN g ELSE AddChild(g, parseChild(childMatch.cap))

parseRotateLog(line, fullCode) ==
  LET match == FirstMatch(line, rotateAt)
      childMatch == FirstMatch(fullCode, rotateChildAt) IN
  IF match.isNull \/ childMatch.isNull THEN <<>> ELSE parseChildLog(childMatch.cap)

\* The index of the first line of the block that starts with cube and parses
\* (0 if none): the loop of parseDifference stops there.
FirstCubeLine(lines) ==
  LET hits == {i \in 1..Len(lines) :
                 /\ StartsWith(Trim(lines[i]), "cube")
                 /\ ~parseCube(Trim(lines[i])).isNull} IN
  IF hits = {} THEN 0 ELSE Least(hits)

parseDifference(fullCode) ==
  LET match == FirstMatch(fullCode, differenceAt) IN
  IF match.isNull THEN null
  ELSE LET lines == Split(match.cap, "\n")
           i == FirstCubeLine(lines) IN
    IF i = 0 THEN Group
    ELSE AddChild(Group, [parseCube(Trim(lines[i])) EXCEPT !.color = "ed8936"])

RECURSIVE ConcatAll(_)
ConcatAll(ss) == IF ss = <<>> THEN <<>> ELSE Head(ss) \o ConcatAll(Tail(ss))

parseDifferenceLog(fullCode) ==
  LET match == FirstMatch(fullCode, differenceAt) IN
  IF match.isNull THEN <<>>
  ELSE LET lines == Split(match.cap, "\n")
           i == FirstCubeLine(lines)
           n == IF i = 0 THEN Len(lines) ELSE i IN
    ConcatAll([j \in 1..n |->
      IF StartsWith(Trim(lines[j]), "cube") THEN parseCubeLog(Trim(lines[j])) ELSE <<>>])

----------------------------------------------------------------------------
(* parseOpenSCADToThreeJS of src/src/utils/openscadConverter.ts *)

\* line.substring(0, line.indexOf('//')) when the line holds "//"
StripLineComment(line) ==
  LET commentIndex == FirstIdx(line, 1, {"//"}) IN
  IF commentIndex # 0 THEN SubSeq(line, 1, commentIndex - 1) ELSE line

\* Array.prototype.join
RECURSIVE Join(_, _)
Join(parts, sep) ==
  IF Len(parts) = 0 THEN <<>>
  ELSE IF Len(parts) = 1 THEN parts[1]
  ELSE parts[1] \o <<sep>> \o Join(Tail(parts), sep)

\* .replace(/\/\*[\s\S]*?\*\//g, ''): each "/*" up to the next "*/" is removed;
\* a "/*" with no "*/" after it stays.
RECURSIVE RemoveBlockComments(_)
RemoveBlockComments(s) ==
  LET a == FirstIdx(s, 1, {"/*"})
      b == IF a = 0 THEN 0 ELSE FirstIdx(s, a + 1, {"*/"}) IN
  IF b = 0 THEN s
  ELSE SubSeq(s, 1, a - 1) \o RemoveBlockComments(SubSeq(s, b + 1, Len(s)))

CleanCode(c) ==
  LET lines == Split(c, "\n") IN
  RemoveBlockComments(Join([i \in 1..Len(lines) |-> StripLineComment(lines[i])], "\n"))

\* The object one line of the loop adds to the group (null: nothing is added).
LineObject(trimmed, fullCode) ==
  IF Includes(trimmed, <<"cube", "(">>) THEN parseCube(trimmed)
  ELSE IF Includes(trimmed, <<"sphere", "(">>) THEN parseSphere(trimmed)
  ELSE IF Includes(trimmed, <<"cylinder", "(">>) THEN parseCylinder(trimmed)
  ELSE IF Includes(trimmed, <<"translate", "(">>) THEN parseTranslate(trimmed, fullCode)
  ELSE IF Includes(trimmed, <<"rotate", "(">>) THEN parseRotate(trimmed, fullCode)
  ELSE IF Includes(trimmed, <<"difference", "(", ")">>) THEN parseDifference(fullCode)
  ELSE null

LineLog(trimmed, fullCode) ==
  IF Includes(trimmed, <<"cube", "(">>) THEN parseCubeLog(trimmed)
  ELSE IF Includes(trimmed, <<"sphere", "(">>) THEN <<>>
  ELSE IF Includes(trimmed, <<"cylinder", "(">>) THEN <<>>
  ELSE IF Includes(trimmed, <<"translate", "(">>) THEN parseTranslateLog(trimmed, fullCode)
  ELSE IF Includes(trimmed, <<"rotate", "(">>) THEN parseRotateLog(trimmed, fullCode)
  ELSE IF Includes(trimmed, <<"difference", "(", ")">>) THEN parseDifferenceLog(fullCode)
  ELSE <<>>

NoGeometryMessage ==
  "No valid OpenSCAD primitives found. Supported: cube, sphere, cylinder, translate, rotate"

Returned(children) == [status |-> "returned", children |-> children, message |-> ""]
Thrown(message) == [status |-> "thrown", children |-> <<>>, message |-> message]
Pending == [status |-> "pending", children |-> <<>>, message |-> ""]

----------------------------------------------------------------------------
(* The converter of src/unnamed/part_000 (lines 310-654) *)

\* String.prototype.matchAll: the successive leftmost matches, each search
\* starting after the previous match.
AllMatches(s, MatchAt(_, _)) ==
  LET from[i \in 1..(Len(s) + 1)] ==
        LET ps == {p \in i..Len(s) : ~MatchAt(s, p).isNull} IN
        IF ps = {} THEN <<>>
        ELSE LET m == MatchAt(s, Least(ps)) IN <<m>> \o from[m.last + 1]
  IN from[1]

\* /(\w+)\s*=\s*([0-9.]+)\s*;/ at p: cap is the name, num the number
assignAt(s, p) ==
  IF ~(p <= Len(s) /\ IsWord(s[p])) THEN null
  ELSE LET e == SkipWs(s, p + 1) IN
    IF ~LitAt(s, e, <<"=">>) THEN null
    ELSE LET f == SkipWs(s, e + 1) IN
      IF ~(f <= Len(s) /\ s[f] \in NumTok) THEN null
      ELSE LET g == SkipWs(s, f + 1) IN
        IF LitAt(s, g, <<";">>)
        THEN [isNull |-> FALSE, cap |-> s[p], num |-> <<s[f]>>, last |-> g]
        ELSE null

\* The Map built from the assignments: a later assignment replaces an earlier one.
VariableTable(s) ==
  LET ms == AllMatches(s, assignAt)
      names == {ms[i].cap : i \in 1..Len(ms)}
      lastOf(n) == CHOOSE i \in 1..Len(ms) :
                     /\ ms[i].cap = n
                     /\ \A j \in 1..Len(ms) : ms[j].cap = n => j <= i IN
  [n \in names |-> parseFloat(ms[lastOf(n)].num)]

\* variables.has(trimmed) ? variables.get(trimmed) : parseFloat(trimmed)
Resolve(trimmed, vt) ==
  IF Len(trimmed) = 1 /\ trimmed[1] \in DOMAIN vt THEN vt[trimmed[1]]
  ELSE parseFloat(trimmed)

\* /cube\(\s*\[([^\]]+)\]/ at p
cubeBracketVAt(s, p) ==
  IF ~LitAt(s, p, <<"cube", "(">>) THEN null
  ELSE LET a == SkipWs(s, p + 2) IN
    IF ~LitAt(s, a, <<"[">>) THEN null
    ELSE LET b == FirstIdx(s, a + 1, {"]"}) IN
      IF b = 0 \/ b = a + 1 THEN null ELSE Match(SubSeq(s, a + 1, b - 1), b)

\* /cube\(\s*([^,\[\)]+)/ at p
cubeSingleVAt(s, p) ==
  IF ~LitAt(s, p, <<"cube", "(">>) THEN null
  ELSE CaptureRun(s, p + 2, {",", "[", ")"})

parseCubeV(line, vt) ==
  LET bracketMatch == FirstMatch(line, cubeBracketVAt)
      singleMatch == FirstMatch(line, cubeSingleVAt) IN
  IF ~bracketMatch.isNull
  THEN LET parts == Split(bracketMatch.cap, ",") IN
       CubeMesh(CubeSize([i \in 1..Len(parts) |-> Resolve(Trim(parts[i]), vt)]))
  ELSE IF ~singleMatch.isNull
  THEN CubeMesh(CubeSize(<<Resolve(Trim(singleMatch.cap), vt)>>))
  ELSE null

parseCubeVLog(line) ==
  IF FirstMatch(line, cubeBracketVAt).isNull /\ FirstMatch(line, cubeSingleVAt).isNull
  THEN <<"warn: Could not parse cube">> ELSE <<>>

\* parseSphere and parseCylinder of part_000 take the table and do not read it.
parseSphereV(line, vt) ==
  LET match == FirstMatch(line, sphereAt) IN
  IF match.isNull THEN null
  ELSE Mesh("Sphere", <<parseFloat(Trim(match.cap)), 32, 32>>, "764ba2", "0.9")

parseCylinderV(line, vt) ==
  LET hMatch == FirstMatch(line, hAt)
      rMatch == FirstMatch(line, rAt)
      r1Match == FirstMatch(line, r1At)
      r2Match == FirstMatch(line, r2At)
      height == IF ~hMatch.isNull THEN parseFloat(hMatch.cap) ELSE 2
      radius == IF ~rMatch.isNull THEN parseFloat(rMatch.cap) ELSE 2
      r1 == IF ~r1Match.isNull THEN parseFloat(r1Match.cap) ELSE radius
      r2 == IF ~r2Match.isNull THEN parseFloat(r2Match.cap) ELSE radius IN
  [Mesh("Cylinder", <<r2, r1, height, 32>>, "48bb78", "0.9") EXCEPT
     !.rotation = Vec3(HalfPi, 0, 0)]

\* /height\s*=\s*([^,\)]+)/ at p
heightAt(s, p) == NamedAt(s, p, {"height"})

parseLinearExtrude(c, vt) ==
  LET heightMatch == FirstMatch(c, heightAt)
      height == IF heightMatch.isNull THEN 20 ELSE Resolve(Trim(heightMatch.cap), vt) IN
  Mesh("Box", <<40, 40, height>>, "10b981", "0.85")

parseShape(c, vt) ==
  IF Includes(c, <<"cube", "(">>) THEN parseCubeV(c, vt)
  ELSE IF Includes(c, <<"sphere", "(">>) THEN parseSphereV(c, vt)
  ELSE IF Includes(c, <<"cylinder", "(">>) THEN parseCylinderV(c, vt)
  ELSE IF Includes(c, <<"linear_extrude">>) THEN parseLinearExtrude(c, vt)
  ELSE null

\* /translate\(\[([^\]]+)\]\)\s*(\w+\([^}]+\}|\w+\([^)]+\))/ at p:
\* cap is the vector, shape the text of the shape
translateShapeAt(s, p) ==
  LET v == translateAt(s, p) IN
  IF v.isNull THEN null
  ELSE LET c == SkipWs(s, v.last + 1) IN
    IF ~(c + 1 <= Len(s) /\ IsWord(s[c]) /\ s[c + 1] = "(") THEN null
    ELSE LET d1 == FirstIdx(s, c + 2, {"}"})
             d2 == FirstIdx(s, c + 2, {")"}) IN
      IF d1 > c + 2
      THEN [isNull |-> FALSE, cap |-> v.cap, shape |-> SubSeq(s, c, d1), last |-> d1]
      ELSE IF d2 > c + 2
      THEN [isNull |-> FALSE, cap |-> v.cap, shape |-> SubSeq(s, c, d2), last |-> d2]
      ELSE null

\* /cube\(\s*\[([^\]]+)\][^;]*\)/ at p: cap is the whole match
cubeStandaloneAt(s, p) ==
  LET m == cubeBracketVAt(s, p) IN
  IF m.isNull THEN null
  ELSE LET k == LastIdx(s, m.last + 1, RunEnd(s, m.last + 1, {";"}), {")"}) IN
    IF k = 0 THEN null ELSE Match(SubSeq(s, p, k), k)

\* The non-null members of a sequence of objects
RECURSIVE NonNull(_)
NonNull(objs) ==
  IF objs = <<>> THEN <<>>
  ELSE IF Head(objs).isNull THEN NonNull(Tail(objs))
  ELSE <<Head(objs)>> \o NonNull(Tail(objs))

extractShapes(c, vt) ==
  LET translateMatches == AllMatches(c, translateShapeAt)
      cubeMatches == AllMatches(c, cubeStandaloneAt)
      translated(m) ==
        LET parts == Split(m.cap, ",")
            coords == [i \in 1..Len(parts) |-> Resolve(Trim(parts[i]), vt)]
            shape == parseShape(m.shape, vt) IN
        IF shape.isNull THEN null
        ELSE [shape EXCEPT !.position = Vec3(OrElse(At(coords, 1), 0),
                                             OrElse(At(coords, 2), 0),
                                             OrElse(At(coords, 3), 0))] IN
  NonNull([i \in 1..Len(translateMatches) |-> translated(translateMatches[i])])
    \o NonNull([i \in 1..Len(cubeMatches) |-> parseCubeV(cubeMatches[i].cap, vt)])

\* /name\(\)\s*\{([\s\S]*)\}/ at p: the capture runs to the last "}" of the text
BlockAt(s, p, name) ==
  IF ~LitAt(s, p, <<name, "(", ")">>) THEN null
  ELSE LET a == SkipWs(s, p + 3) IN
    IF ~LitAt(s, a, <<"{">>) THEN null
    ELSE LET b == LastIdx(s, a + 1, Len(s), {"}"}) IN
      IF b = 0 THEN null ELSE Match(SubSeq(s, a + 1, b - 1), b)
differenceBlockAt(s, p) == BlockAt(s, p, "difference")
unionBlockAt(s, p) == BlockAt(s, p, "union")

\* The first shape of a difference block, with the difference material when it
\* is a mesh (null when the block holds no shape).
FirstTagged(shapes) ==
  IF Len(shapes) = 0 THEN null
  ELSE IF shapes[1].type = "Mesh"
  THEN [shapes[1] EXCEPT !.color = "8b5cf6", !.opacity = "0.85"]
  ELSE shapes[1]

parseDifferenceBlock(c, vt) ==
  LET match == FirstMatch(c, differenceBlockAt) IN
  IF match.isNull THEN null
  ELSE FirstTagged(extractShapes(match.cap, vt))

parseUnionBlock(c, vt) ==
  LET match == FirstMatch(c, unionBlockAt) IN
  IF match.isNull THEN null
  ELSE [Group EXCEPT !.children = extractShapes(match.cap, vt)]

parseComplexStructure(c, vt) ==
  IF Includes(c, <<"difference", "(", ")">>) THEN parseDifferenceBlock(c, vt)
  ELSE IF Includes(c, <<"union", "(", ")">>) THEN parseUnionBlock(c, vt)
  ELSE IF Includes(c, <<"linear_extrude">>) THEN parseLinearExtrude(c, vt)
  ELSE null

\* The object one line of the fallback loop adds (null: nothing).
LineObjectV(trimmed, vt) ==
  IF Includes(trimmed, <<"cube", "(">>) THEN parseCubeV(trimmed, vt)
  ELSE IF Includes(trimmed, <<"sphere", "(">>) THEN parseSphereV(trimmed, vt)
  ELSE IF Includes(trimmed, <<"cylinder", "(">>) THEN parseCylinderV(trimmed, vt)
  ELSE null

LineLogV(trimmed) ==
  IF Includes(trimmed, <<"cube", "(">>) THEN parseCubeVLog(trimmed) ELSE <<>>

\* The box put in the group when nothing was parsed.  (The catch clause of
\* part_000 puts a red box of the same size; nothing in the try block throws.)
Placeholder == Mesh("Box", <<20, 20, 20>>, "667eea", "0.7")

----------------------------------------------------------------------------
(* The whole call, as one function of the text (utils converter) *)

parseOpenSCADToThreeJS(c) ==
  LET clean == CleanCode(c)
      lines == Split(clean, "\n")
      children == NonNull([i \in 1..Len(lines) |->
                    IF Trim(lines[i]) = <<>> THEN null
                    ELSE LineObject(Trim(lines[i]), clean)]) IN
  IF Len(children) = 0 THEN Thrown(NoGeometryMessage) ELSE Returned(children)

\* The same for the converter of part_000
parseOpenSCADToThreeJSV(c) ==
  LET clean == CleanCode(c)
      vt == VariableTable(clean)
      parsed == parseComplexStructure(clean, vt)
      lines == Split(clean, "\n")
      children == NonNull([i \in 1..Len(lines) |->
                    IF Trim(lines[i]) = <<>> THEN null
                    ELSE LineObjectV(Trim(lines[i]), vt)]) IN
  IF ~parsed.isNull THEN Returned(<<parsed>>)
  ELSE IF Len(children) = 0 THEN Returned(<<Placeholder>>)
  ELSE Returned(children)

----------------------------------------------------------------------------
(* three.js objects as the exporter and the viewer read them.  Lengths are  *)
(* held in half units like the sizes above, angles in units of PI/720; the  *)
(* viewer turns its model in steps of 0.005 rad, counted apart (turn).      *)

\* One local matrix: Object3D.updateMatrix composes position and rotation
\* (Euler XYZ); turn is the part of the rotation counted in steps of 0.005 rad.
Step(position, rotation, turn) ==
  [position |-> position, rotation |-> rotation, turn |-> turn]

\* A Matrix4 is held as the local matrices it is the product of, outermost
\* first; the empty sequence is the identity.
Identity4 == <<>>

\* JavaScript arithmetic: a sum, a difference or a product with NaN or with
\* undefined is NaN (0 * NaN too).
IsNum(x) == x \notin {NaN, undefined}
Plus(a, b) == IF IsNum(a) /\ IsNum(b) THEN a + b ELSE NaN
Minus(a, b) == IF IsNum(a) /\ IsNum(b) THEN a - b ELSE NaN
Times(a, b) == IF IsNum(a) /\ IsNum(b) THEN a * b ELSE NaN
HasNaN(v) == \E i \in 1..3 : ~IsNum(v[i])
Neg(a) == Minus(0, a)
NaN3 == <<NaN, NaN, NaN>>

AddV(a, b) == <<Plus(a[1], b[1]), Plus(a[2], b[2]), Plus(a[3], b[3])>>
SubV(a, b) == <<Minus(a[1], b[1]), Minus(a[2], b[2]), Minus(a[3], b[3])>>
CrossV(a, b) ==
  <<Minus(Times(a[2], b[3]), Times(a[3], b[2])),
    Minus(Times(a[3], b[1]), Times(a[1], b[3])),
    Minus(Times(a[1], b[2]), Times(a[2], b[1]))>>

\* A local matrix that only moves: the rotation is Euler(0, 0, 0), whose sines
\* and cosines are 0 and 1, and the products and sums with the position are
\* exact.  Any other angle gives a matrix of rounded numbers (a quarter turn
\* too: the matrix of Euler(Math.PI / 2, 0, 0) has 2.2e-16 where 0 would be).
IsTranslation(st) == st.rotation = <<0, 0, 0>> /\ st.turn = <<0, 0, 0>>

\* A local matrix with NaN in it: a position or an angle that is NaN or
\* undefined
NaNStep(st) == HasNaN(st.position) \/ HasNaN(st.rotation)

\* Vector3.applyMatrix4 with the matrix m, the product of the steps of m from
\* the identity of the scene on (Object3D.updateMatrixWorld multiplies the
\* parent's matrixWorld by the local matrix).  The steps are applied innermost
\* first.  A point is held as p with the steps m still to apply to it: m is
\* empty when every step only moves, and from the first step that turns on the
\* point is kept as the vector and the matrix, its coordinates being the
\* rounded numbers of the product, which are not held.  NaN in the vector or
\* in any step spreads through the products (0 * NaN is NaN, and with it the
\* divisor w) to every coordinate.
RECURSIVE applyMatrix4(_, _)
applyMatrix4(v, m) ==
  IF HasNaN(v) \/ \E i \in 1..Len(m) : NaNStep(m[i]) THEN [p |-> NaN3, m |-> <<>>]
  ELSE IF m = <<>> THEN [p |-> v, m |-> <<>>]
  ELSE IF IsTranslation(m[Len(m)])
  THEN applyMatrix4(AddV(v, m[Len(m)].position), SubSeq(m, 1, Len(m) - 1))
  ELSE [p |-> v, m |-> m]

\* new Matrix4().extractRotation(m): the upper 3x3 part of m with its columns
\* scaled to length one, the last column and row those of the identity.  The
\* position of the innermost step is only in the last column of the product and
\* is dropped; a NaN in the position of a step further out has spread to the
\* 3x3 part and stays.
extractRotation(m) ==
  [i \in 1..Len(m) |->
     [m[i] EXCEPT !.position = IF i < Len(m) /\ HasNaN(@) THEN NaN3 ELSE <<0, 0, 0>>]]

Abs(n) == IF n < 0 THEN -n ELSE n
RECURSIVE Gcd(_, _)
Gcd(a, b) == IF b = 0 THEN a ELSE Gcd(b, a % b)

\* The integer vector with no common divisor that points the way v points
Direction(v) ==
  IF v = <<0, 0, 0>> THEN v
  ELSE
  <<v[1] \div Gcd(Gcd(Abs(v[1]), Abs(v[2])), Abs(v[3])),
    v[2] \div Gcd(Gcd(Abs(v[1]), Abs(v[2])), Abs(v[3])),
    v[3] \div Gcd(Gcd(Abs(v[1]), Abs(v[2])), Abs(v[3]))>>

\* v lies along one axis
OnAxis(v) == Cardinality({i \in 1..3 : v[i] # 0}) = 1

\* Vector3.normalize: divideScalar(length() || 1), which multiplies by
\* 1 / length.  A length of 0 or NaN leaves the vector as it is.  For a vector
\* along an axis of a length below 49 (times a power of two) c * (1 / c) is 1
\* exactly, and the result is the axis.  Every other vector has coordinates
\* that are rounded numbers: it is held as its direction with unit set, which
\* says that the numbers are still to be divided by their length.
normalize(v) ==
  IF HasNaN(v) \/ v = <<0, 0, 0>> THEN [p |-> v, unit |-> FALSE]
  ELSE IF OnAxis(v) /\ Abs(v[1] + v[2] + v[3]) < 49
  THEN [p |-> Direction(v), unit |-> FALSE]
  ELSE [p |-> Direction(v), unit |-> TRUE]

\* BufferGeometry: the position and normal attributes and the index
BufferGeometry(position, normal, indexed, index) ==
  [hasPosition |-> TRUE, position |-> position, normal |-> normal,
   indexed |-> indexed, index |-> index]

\* A geometry without a position attribute (and the geometry field of a group)
NoAttributes ==
  [hasPosition |-> FALSE, position |-> <<>>, normal |-> <<>>,
   indexed |-> FALSE, index |-> <<>>]

Object3D(type, geometry, matrixWorld, children) ==
  [type |-> type, geometry |-> geometry, matrixWorld |-> matrixWorld,
   children |-> children]

\* Object3D.traverse with the callback of generateSTL: the meshes, the object
\* itself first, then those of its children in order
RECURSIVE TraverseMeshes(_)
TraverseMeshes(obj) ==
  LET OfChildren[i \in 0..Len(obj.children)] ==
        IF i = 0 THEN <<>> ELSE OfChildren[i - 1] \o TraverseMeshes(obj.children[i]) IN
  (IF obj.type = "Mesh" THEN <<obj>> ELSE <<>>) \o OfChildren[Len(obj.children)]

----------------------------------------------------------------------------
(* generateSTL of src/src/utils/stlExporter.ts *)

\* `${x}` for a length held in half units
Fmt(n) ==
  IF n = NaN THEN "NaN"
  ELSE IF n = undefined THEN "undefined"
  ELSE IF n % 2 = 0 THEN ToString(n \div 2)
  ELSE IF n > 0 THEN ToString(n \div 2) \o ".5"
  ELSE (IF n = -1 THEN "-0" ELSE ToString((n + 1) \div 2)) \o ".5"

\* `${x}` for a whole number
FmtWhole(n) ==
  IF n = NaN THEN "NaN"
  ELSE IF n = undefined THEN "undefined"
  ELSE ToString(n)

\* One line of the text: the words before the numbers, the numbers as written,
\* the steps the numbers are still to be taken through (see applyMatrix4), and
\* whether they are still to be divided by their length (see normalize).
Line(kind, text, m) == [kind |-> kind, text |-> text, m |-> m, unit |-> FALSE]
Words(kind) == Line(kind, <<>>, <<>>)

VertexLine(pt) == Line("vertex", <<Fmt(pt.p[1]), Fmt(pt.p[2]), Fmt(pt.p[3])>>, pt.m)
NormalLine(pt) ==
  [Line("facet normal", <<FmtWhole(pt.p[1]), FmtWhole(pt.p[2]), FmtWhole(pt.p[3])>>, pt.m)
     EXCEPT !.unit = pt.unit]

\* index.getX(i), i from 0: undefined beyond the count
getX(index, i) == IF i < Len(index) THEN index[i + 1] ELSE undefined

\* a[i] of an array, i from 0, is an element (not undefined)
Has(a, i) == i # undefined /\ i >= 0 /\ i < Len(a)

\* Triangles without the index: every mesh read as a triangle soup
TrianglesUnindexed(mesh) ==
  [t \in 1..(Len(mesh.geometry.position) \div 3) |-> <<3 * t - 3, 3 * t - 2, 3 * t - 1>>]

\* The triangles the loops enter, as indices (from 0) into the vertices.  With
\* an index: one for every i = 0, 3, 6, ... below index.count, the places
\* beyond the count read as undefined.  Without: by threes from the vertices,
\* an incomplete last triangle being passed over (line 100).
Triangles(mesh) ==
  IF mesh.geometry.indexed
  THEN [t \in 1..((Len(mesh.geometry.index) + 2) \div 3) |->
          <<getX(mesh.geometry.index, 3 * t - 3), getX(mesh.geometry.index, 3 * t - 2),
            getX(mesh.geometry.index, 3 * t - 1)>>]
  ELSE [t \in 1..(Len(mesh.geometry.position) \div 3) |-> <<3 * t - 3, 3 * t - 2, 3 * t - 1>>]

\* The TypeError of reading a property of undefined
TypeErrorMessage(name) == "Cannot read properties of undefined (reading '" \o name \o "')"

\* What a turn of a triangle loop throws ("" when nothing): normals[i1].clone()
\* of a missing normal, add(normals[i2]) of a missing normal, subVectors and
\* `${v1.x}` of a missing vertex
FacetError(mesh, tri) ==
  IF Len(mesh.geometry.normal) > 0 /\ ~Has(mesh.geometry.normal, tri[1])
  THEN TypeErrorMessage("clone")
  ELSE IF Len(mesh.geometry.normal) > 0
          /\ (~Has(mesh.geometry.normal, tri[2]) \/ ~Has(mesh.geometry.normal, tri[3]))
  THEN TypeErrorMessage("x")
  ELSE IF \E k \in 1..3 : ~Has(mesh.geometry.position, tri[k])
  THEN TypeErrorMessage("x")
  ELSE ""

\* The k-th vertex of a triangle where the mesh stands (lines 39-48)
WorldVertex(mesh, tri, k) ==
  applyMatrix4(mesh.geometry.position[tri[k] + 1], mesh.matrixWorld)

\* The normal of a facet: the sum of the three vertex normals when the mesh has
\* normals, else the cross product of two edges, normalized.  The code turns
\* each normal by the rotation of matrixWorld before it adds, and takes the
\* edges between the vertices in the world; a rotation being linear, the sum
\* and the product are held as those of the local vectors with the rotation
\* still to apply.  With a NaN vertex the edges and the product are NaN.  The
\* result is exact (unit not set) only when nothing turns.
FacetNormal(mesh, tri) ==
  LET local ==
        IF Len(mesh.geometry.normal) > 0
        THEN AddV(AddV(mesh.geometry.normal[tri[1] + 1], mesh.geometry.normal[tri[2] + 1]),
                  mesh.geometry.normal[tri[3] + 1])
        ELSE IF \E k \in 1..3 : HasNaN(WorldVertex(mesh, tri, k).p)
        THEN NaN3
        ELSE CrossV(SubV(mesh.geometry.position[tri[2] + 1], mesh.geometry.position[tri[1] + 1]),
                    SubV(mesh.geometry.position[tri[3] + 1], mesh.geometry.position[tri[1] + 1]))
      turned == applyMatrix4(local, extractRotation(mesh.matrixWorld)) IN
  IF turned.m = <<>>
  THEN [p |-> normalize(turned.p).p, m |-> <<>>, unit |-> normalize(turned.p).unit]
  ELSE [p |-> Direction(turned.p), m |-> turned.m, unit |-> TRUE]

Facet(mesh, tri) ==
  <<NormalLine(FacetNormal(mesh, tri)),
    Words("outer loop"),
    VertexLine(WorldVertex(mesh, tri, 1)),
    VertexLine(WorldVertex(mesh, tri, 2)),
    VertexLine(WorldVertex(mesh, tri, 3)),
    Words("endloop"),
    Words("endfacet")>>

\* The number of facets a mesh gets written before its loop throws or ends
RECURSIVE FacetsWritten(_, _)
FacetsWritten(mesh, t) ==
  IF t > Len(Triangles(mesh)) THEN t - 1
  ELSE IF FacetError(mesh, Triangles(mesh)[t]) # "" THEN t - 1
  ELSE FacetsWritten(mesh, t + 1)

\* What one turn of meshes.forEach throws ("" when it returns)
MeshError(mesh) ==
  IF ~mesh.geometry.hasPosition THEN ""
  ELSE IF FacetsWritten(mesh, 1) = Len(Triangles(mesh)) THEN ""
  ELSE FacetError(mesh, Triangles(mesh)[FacetsWritten(mesh, 1) + 1])

\* What one turn of meshes.forEach adds to the text
MeshFacets(mesh) ==
  IF ~mesh.geometry.hasPosition THEN <<>>
  ELSE ConcatAll([t \in 1..FacetsWritten(mesh, 1) |-> Facet(mesh, Triangles(mesh)[t])])

NoMeshesMessage == "No meshes to export"

StlReturned(stl) == [status |-> "returned", stl |-> stl, message |-> ""]
StlThrown(message) == [status |-> "thrown", stl |-> <<>>, message |-> message]
StlPending == [status |-> "pending", stl |-> <<>>, message |-> ""]

MeshesText(meshes) == ConcatAll([i \in 1..Len(meshes) |-> MeshFacets(meshes[i])])

\* The message of the first mesh whose loop throws ("" when none does)
RECURSIVE MeshesError(_)
MeshesError(meshes) ==
  IF meshes = <<>> THEN ""
  ELSE IF MeshError(Head(meshes)) # "" THEN MeshError(Head(meshes))
  ELSE MeshesError(Tail(meshes))

generateSTL(root) ==
  IF Len(TraverseMeshes(root)) = 0 THEN StlThrown(NoMeshesMessage)
  ELSE IF MeshesError(TraverseMeshes(root)) # "" THEN StlThrown(MeshesError(TraverseMeshes(root)))
  ELSE StlReturned(<<Words("solid model")>> \o MeshesText(TraverseMeshes(root))
                     \o <<Words("endsolid model")>>)

----------------------------------------------------------------------------
(* Inputs of generateSTL: groups of meshes with indexed and non-indexed      *)
(* geometries, with and without normals, under several world matrices       *)

\* The number of meshes of a group
MaxMeshes == 2

\* one triangle, no normals
TriangleSoup ==
  BufferGeometry(<<<<0, 0, 0>>, <<2, 0, 0>>, <<0, 2, 0>>>>, <<>>, FALSE, <<>>)

\* two triangles in the plane z = 1, with normals
TwoSoup ==
  BufferGeometry(<<<<0, 0, 2>>, <<2, 0, 2>>, <<0, 2, 2>>, <<2, 0, 2>>, <<2, 2, 2>>, <<0, 2, 2>>>>,
                 [i \in 1..6 |-> <<0, 0, 1>>], FALSE, <<>>)

\* a quadrilateral of four vertices and two indexed triangles, with normals
QuadIndexed ==
  BufferGeometry(<<<<-1, -1, 0>>, <<1, -1, 0>>, <<-1, 1, 0>>, <<1, 1, 0>>>>,
                 [i \in 1..4 |-> <<0, 0, 1>>], TRUE, <<0, 1, 2, 2, 1, 3>>)

\* a folded quadrilateral of four vertices and two indexed triangles, no normals
FoldIndexed ==
  BufferGeometry(<<<<0, 0, 0>>, <<4, 0, 0>>, <<0, 4, 0>>, <<0, 0, 3>>>>,
                 <<>>, TRUE, <<0, 1, 2, 0, 3, 1>>)

Geometries == {TriangleSoup, TwoSoup, QuadIndexed, FoldIndexed, NoAttributes}

Matrices ==
  {Identity4,
   <<Step(<<2, 0, 4>>, <<0, 0, 0>>, <<0, 0, 0>>)>>,
   <<Step(<<0, 6, 0>>, <<0, 0, 0>>, <<0, 0, 0>>), Step(<<1, 1, 1>>, <<HalfPi, 0, 0>>, <<0, 0, 0>>)>>,
   <<Step(<<0, 0, 0>>, <<0, 0, 0>>, <<0, 1, 0>>), Step(<<2, 0, 4>>, <<0, 0, 0>>, <<0, 0, 0>>)>>}

StlMeshes == {Object3D("Mesh", g, m, <<>>) : g \in Geometries, m \in Matrices}

GroupOf(children) == Object3D("Group", NoAttributes, Identity4, children)

\* the meshes side by side, or the last of them inside a group of its own
StlGroups ==
  UNION {{GroupOf(ms) : ms \in [1..n -> StlMeshes]} : n \in 0..MaxMeshes}
    \cup UNION {{GroupOf(SubSeq(ms, 1, n - 1) \o <<GroupOf(<<ms[n]>>)>>) :
                   ms \in [1..n -> StlMeshes]} : n \in 1..MaxMeshes}

----------------------------------------------------------------------------
(* The state machine: one call of generateSTL *)

StlIdle ==
  /\ xGroup = GroupOf(<<>>)
  /\ xPc = "idle"
  /\ xMeshes = <<>>
  /\ xNext = 1
  /\ xStl = <<>>
  /\ xResult = StlPending

ConverterIdle ==
  /\ variant = "utils"
  /\ prog = <<>>
  /\ code = <<>>
  /\ pc = "idle"
  /\ cleanCode = <<>>
  /\ variables = <<>>
  /\ lineNo = 1
  /\ group = <<>>
  /\ console = <<>>
  /\ result = Pending

\* No viewer: the state of a component that is never mounted
ViewIdle ==
  /\ openscadCode = <<>>
  /\ sceneRef = FALSE
  /\ sceneReady = FALSE
  /\ modelGroupRef = null
  /\ scene = {}
  /\ disposed = {}
  /\ error = ""
  /\ isRendering = FALSE
  /\ isExporting = FALSE
  /\ isDragging = FALSE
  /\ lastPos = <<0, 0>>
  /\ autoRotate = TRUE
  /\ camera = [fitted |-> 0, wheel |-> 0]
  /\ downloads = <<>>
  /\ uncaught = ""
  /\ parseLog = <<>>
  /\ burst = [changes |-> 0, evaluations |-> 0]
  /\ clicks = 0
  /\ autoBefore = TRUE

\* null of geminiServiceRef
NoService == ""

\* window.localStorage with no item
NoItems == [name \in {} |-> ""]

\* No App: the page is not open
AppIdle ==
  /\ localStorage = NoItems
  /\ envApiKey = ""
  /\ mounted = FALSE
  /\ messages = <<>>
  /\ isLoading = FALSE
  /\ showApiKeyInput = TRUE
  /\ geminiServiceRef = NoService
  /\ inflight = {}
  /\ sent = 0
  /\ appLast = ""
  /\ resetClean = FALSE

\* No call of generateOpenSCAD
GeminiIdle ==
  /\ gOutcome = [ok |-> FALSE, text |-> <<>>, message |-> ""]
  /\ gPc = "idle"
  /\ gResult = [status |-> "pending", code |-> <<>>, explanation |-> <<>>, message |-> ""]

StlInit ==
  /\ xGroup \in StlGroups
  /\ xPc = "start"
  /\ xMeshes = <<>>
  /\ xNext = 1
  /\ xStl = <<>>
  /\ xResult = StlPending
  /\ ConverterIdle
  /\ ViewIdle
  /\ AppIdle
  /\ GeminiIdle

\* group.traverse collects the meshes; with none the call throws
Traverse ==
  /\ xPc = "start"
  /\ xMeshes' = TraverseMeshes(xGroup)
  /\ IF Len(xMeshes') = 0
     THEN /\ xResult' = StlThrown(NoMeshesMessage)
          /\ xPc' = "done"
          /\ xStl' = xStl
     ELSE /\ xStl' = <<Words("solid model")>>
          /\ xPc' = "meshes"
          /\ xResult' = xResult
  /\ UNCHANGED <<xGroup, xNext>>
  /\ UNCHANGED notStl

\* one turn of meshes.forEach; a TypeError of the triangle loop leaves generateSTL
WriteMesh ==
  /\ xPc = "meshes"
  /\ xNext <= Len(xMeshes)
  /\ xStl' = xStl \o MeshFacets(xMeshes[xNext])
  /\ xNext' = xNext + 1
  /\ IF MeshError(xMeshes[xNext]) # ""
     THEN xResult' = StlThrown(MeshError(xMeshes[xNext])) /\ xPc' = "done"
     ELSE UNCHANGED <<xPc, xResult>>
  /\ UNCHANGED <<xGroup, xMeshes>>
  /\ UNCHANGED notStl

EndSolid ==
  /\ xPc = "meshes"
  /\ xNext > Len(xMeshes)
  /\ xStl' = Append(xStl, Words("endsolid model"))
  /\ xResult' = StlReturned(xStl')
  /\ xPc' = "done"
  /\ UNCHANGED <<xGroup, xMeshes, xNext>>
  /\ UNCHANGED notStl

StlNext == Traverse \/ WriteMesh \/ EndSolid

StlSpec == StlInit /\ [][StlNext]_allVars

\* The steps of generateSTL compute the function of the group.
StlStepsAgree == xPc = "done" => xResult = generateSTL(xGroup)

----------------------------------------------------------------------------
(* Inputs: source texts written from statements *)

\* The number of top-level statements of a source text
MaxStmts == 2

Stmt(k, a, wraps, lay, kids, sep) ==
  [k |-> k, a |-> a, wraps |-> wraps, lay |-> lay, kids |-> kids, sep |-> sep]

\* The white space between a transform and its child, and inside a block.
Lay(lay) == IF lay = "same" THEN <<" ">> ELSE <<"\n", " ">>

\* The text of a primitive call, an assignment, a malformed call or a comment.
BodyText(k, a) ==
  CASE k = "cube3" -> <<"cube", "(", "[", a[1], ",", a[2], ",", a[3], "]", ")", ";">>
    [] k = "cube1" -> <<"cube", "(", a[1], ")", ";">>
    [] k = "sphere" -> <<"sphere", "(", "r", "=", a[1], ")", ";">>
    [] k = "cylinder" -> <<"cylinder", "(", "h", "=", a[1], ",", " ", "r", "=", a[2], ")", ";">>
    [] k = "cone" -> <<"cylinder", "(", "h", "=", a[1], ",", " ", "r1", "=", a[2], ",", " ",
                       "r2", "=", a[3], ")", ";">>
    [] k = "coner" -> <<"cylinder", "(", "h", "=", a[1], ",", " ", "r", "=", a[2], ",", " ",
                        "r1", "=", a[3], ",", " ", "r2", "=", a[4], ")", ";">>
    [] k = "conebottom" -> <<"cylinder", "(", "r", " ", "=", " ", a[2], ",", "r1", "=", a[3],
                             ",", " ", "h", "=", a[1], ")", ";">>
    [] k = "malformed" -> <<"cube", "(", "bad", " ", "syntax">>
    [] k = "assign" -> <<a[1], "=", a[2], ";">>
    [] k = "linecomment" -> <<"//", " ", "cube", "(", a[1], ")", ";">>
    [] k = "blockcomment" -> <<"/*", " ", "cube", "(", a[1], ")", ";", " ", "*/">>
    [] k = "blocklines" -> <<"/*", "\n", " ", "cube", "(", a[1], ")", ";", "\n", "*/">>
    [] k = "unterminated" -> <<"/*", " ", "cube", "(", a[1], ")", ";">>
    [] k = "blockslash" -> <<"/*", " ", "w", " ", "//", " ", "w", " ", "*/">>

WrapText(w) == <<w.name, "(", "[", w.v[1], ",", w.v[2], ",", w.v[3], "]", ")">>

RECURSIVE WrapsText(_, _)
WrapsText(wraps, lay) ==
  IF wraps = <<>> THEN <<>>
  ELSE WrapText(Head(wraps)) \o Lay(lay) \o WrapsText(Tail(wraps), lay)

RECURSIVE KidsText(_, _)
KidsText(kids, lay) ==
  IF kids = <<>> THEN <<>>
  ELSE BodyText(Head(kids).k, Head(kids).a) \o Lay(lay) \o KidsText(Tail(kids), lay)

\* The children of a union() block, each with the transforms written before it
RECURSIVE UnionKidsText(_, _)
UnionKidsText(kids, lay) ==
  IF kids = <<>> THEN <<>>
  ELSE WrapsText(Head(kids).wraps, "same") \o BodyText(Head(kids).k, Head(kids).a)
         \o Lay(lay) \o UnionKidsText(Tail(kids), lay)

StmtText(st) ==
  IF st.k = "difference"
  THEN <<st.k, "(", ")", "{">> \o Lay(st.lay) \o KidsText(st.kids, st.lay) \o <<"}">>
  ELSE IF st.k = "union"
  THEN <<st.k, "(", ")", "{">> \o Lay(st.lay) \o UnionKidsText(st.kids, st.lay) \o <<"}">>
  ELSE WrapsText(st.wraps, st.lay) \o BodyText(st.k, st.a)

RECURSIVE Render(_)
Render(p) ==
  IF p = <<>> THEN <<>>
  ELSE StmtText(Head(p)) \o <<Head(p).sep>> \o Render(Tail(p))


\* Transforms
Wrap(name, v) == [name |-> name, v |-> v]
T1 == Wrap("translate", <<"1", "0", "2">>)
T2 == Wrap("translate", <<"0", "3", "0">>)
R1 == Wrap("rotate", <<"90", "0", "0">>)

Body(k, a) == [k |-> k, a |-> a]

\* Primitive calls with literal parameters
PrimBodies ==
  {Body("cube3", <<"2", "1", "3">>), Body("cube1", <<"2">>),
   Body("sphere", <<"2">>), Body("cylinder", <<"3", "1">>)}

\* Primitive calls with the identifier w among the parameters
IdentBodies ==
  {Body("cube3", <<"w", "1", "2">>), Body("cube1", <<"w">>),
   Body("sphere", <<"w">>), Body("cylinder", <<"w", "1">>)}

\* Statements that are no geometry
OtherBodies ==
  {Body("malformed", <<>>), Body("assign", <<"w", "3">>),
   Body("linecomment", <<"1">>), Body("blockcomment", <<"1">>)}

Seps == {" ", "\n"}
Lays == {"same", "next"}

BareStmts ==
  {Stmt(b.k, b.a, <<>>, "same", <<>>, sep) :
     b \in PrimBodies \cup IdentBodies \cup OtherBodies, sep \in Seps}

WrappedBodies ==
  {Body("cube3", <<"2", "1", "3">>), Body("sphere", <<"2">>), Body("cylinder", <<"3", "1">>)}

WrappedStmts ==
  {Stmt(b.k, b.a, <<w>>, lay, <<>>, sep) :
     b \in WrappedBodies, w \in {T1, T2, R1}, lay \in Lays, sep \in Seps}

NestedStmts ==
  {Stmt("cube3", <<"2", "1", "3">>, ws, lay, <<>>, sep) :
     ws \in {<<T1, R1>>, <<R1, T1>>, <<T1, T2>>}, lay \in Lays, sep \in Seps}

BlockKids ==
  {<<Body("cube3", <<"2", "1", "3">>), Body("sphere", <<"2">>)>>,
   <<Body("sphere", <<"2">>), Body("cube3", <<"2", "1", "3">>)>>,
   <<Body("cylinder", <<"3", "1">>), Body("sphere", <<"2">>)>>}

BlockStmts ==
  {Stmt("difference", <<>>, <<>>, lay, kids, sep) :
     kids \in BlockKids, lay \in Lays, sep \in Seps}

Pool == BareStmts \cup WrappedStmts \cup NestedStmts \cup BlockStmts

\* cube([x,y,z]) and cube(s) over the dimensions 0, 1, 2, alone in the text
CubeDims == {"0", "1", "2"}
CubePrograms ==
  {<<Stmt("cube3", <<x, y, z>>, <<>>, "same", <<>>, "\n")>> : x, y, z \in CubeDims}
    \cup {<<Stmt("cube1", <<x>>, <<>>, "same", <<>>, "\n")>> : x \in CubeDims}

\* union() blocks of two or three children, alone in the text
Kid(k, a, wraps) == Stmt(k, a, wraps, "same", <<>>, " ")
UnionKids ==
  {<<Kid("cube3", <<"2", "1", "3">>, <<>>), Kid("sphere", <<"2">>, <<>>)>>,
   <<Kid("cube3", <<"2", "1", "3">>, <<>>), Kid("cube1", <<"2">>, <<>>)>>,
   <<Kid("cube3", <<"2", "1", "3">>, <<>>), Kid("cube3", <<"1", "1", "2">>, <<>>)>>,
   <<Kid("sphere", <<"2">>, <<T1>>), Kid("cube3", <<"2", "1", "3">>, <<>>)>>,
   <<Kid("sphere", <<"2">>, <<T1>>), Kid("cylinder", <<"3", "1">>, <<T2>>)>>,
   <<Kid("cube3", <<"2", "1", "3">>, <<T1>>), Kid("sphere", <<"2">>, <<T2>>)>>,
   <<Kid("cylinder", <<"3", "1">>, <<>>), Kid("sphere", <<"2">>, <<>>),
     Kid("cube1", <<"2">>, <<T2>>)>>}
UnionPrograms ==
  {<<Stmt("union", <<>>, <<>>, lay, kids, "\n")>> : kids \in UnionKids, lay \in Lays}

\* A comment and a statement, in either order, on one line or on two
CommentBodies ==
  {Body("linecomment", <<"1">>), Body("blockcomment", <<"1">>), Body("blocklines", <<"1">>),
   Body("unterminated", <<"1">>), Body("blockslash", <<>>)}
CommentPrograms ==
  UNION {{<<Stmt(c.k, c.a, <<>>, "same", <<>>, sep), Stmt(b.k, b.a, <<>>, "same", <<>>, "\n")>>,
          <<Stmt(b.k, b.a, <<>>, "same", <<>>, sep), Stmt(c.k, c.a, <<>>, "same", <<>>, "\n")>>} :
         c \in CommentBodies,
         b \in {Body("cube3", <<"2", "1", "3">>), Body("sphere", <<"2">>)},
         sep \in Seps}

\* One cylinder call with named parameters, under at most MaxWraps transforms
MaxWraps == 1

CylinderBodies ==
  {Body("cylinder", <<"3", "1">>), Body("cylinder", <<"0", "2">>),
   Body("cone", <<"3", "2", "1">>), Body("cone", <<"3", "0", "2">>),
   Body("cone", <<"1", "2", "2">>),
   Body("coner", <<"3", "1", "2", "0">>), Body("coner", <<"2", "3", "1", "1">>),
   Body("conebottom", <<"3", "1", "2">>)}

WrapChains == UNION {[1..n -> {T1, R1}] : n \in 0..MaxWraps}

CylinderPrograms ==
  {<<Stmt(b.k, b.a, ws, lay, <<>>, "\n")>> :
     b \in CylinderBodies, ws \in WrapChains, lay \in Lays}

\* The texts of at most MaxStmts statements; the last one ends its line.
Programs ==
  CubePrograms \cup UnionPrograms \cup CommentPrograms \cup
  UNION {{p \in [1..n -> Pool] : n > 0 => p[n].sep = "\n"} : n \in 0..MaxStmts}

----------------------------------------------------------------------------
(* The state machine: one call of parseOpenSCADToThreeJS *)

Init ==
  /\ variant \in {"utils", "app"}
  /\ prog \in Programs
  /\ code = Render(prog)
  /\ pc = "start"
  /\ cleanCode = <<>>
  /\ variables = <<>>
  /\ lineNo = 1
  /\ group = <<>>
  /\ console = <<>>
  /\ result = Pending
  /\ StlIdle
  /\ ViewIdle
  /\ AppIdle
  /\ GeminiIdle

\* The same call on the texts of one cylinder
CylinderInit ==
  /\ variant \in {"utils", "app"}
  /\ prog \in CylinderPrograms
  /\ code = Render(prog)
  /\ pc = "start"
  /\ cleanCode = <<>>
  /\ variables = <<>>
  /\ lineNo = 1
  /\ group = <<>>
  /\ console = <<>>
  /\ result = Pending
  /\ StlIdle
  /\ ViewIdle
  /\ AppIdle
  /\ GeminiIdle

Lines == Split(cleanCode, "\n")

\* Both converters: comments are removed first.
StripComments ==
  /\ pc = "start"
  /\ cleanCode' = CleanCode(code)
  /\ pc' = IF variant = "utils" THEN "loop" ELSE "variables"
  /\ UNCHANGED <<variant, prog, code, variables, lineNo, group, console, result>>
  /\ UNCHANGED notConverter

\* utils: one turn of the loop over the lines
ParseLine ==
  /\ pc = "loop"
  /\ variant = "utils"
  /\ lineNo <= Len(Lines)
  /\ LET trimmed == Trim(Lines[lineNo])
         obj == IF trimmed = <<>> THEN null ELSE LineObject(trimmed, cleanCode) IN
       /\ group' = IF obj.isNull THEN group ELSE Append(group, obj)
       /\ console' = IF trimmed = <<>> THEN console
                     ELSE console \o LineLog(trimmed, cleanCode)
  /\ lineNo' = lineNo + 1
  /\ UNCHANGED <<variant, prog, code, pc, cleanCode, variables, result>>
  /\ UNCHANGED notConverter

\* utils: after the loop, an empty group is an error, which is logged and rethrown
Finish ==
  /\ pc = "loop"
  /\ variant = "utils"
  /\ lineNo > Len(Lines)
  /\ IF Len(group) = 0
     THEN /\ result' = Thrown(NoGeometryMessage)
          /\ console' = Append(console, "error: Error parsing OpenSCAD")
     ELSE /\ result' = Returned(group)
          /\ console' = console
  /\ pc' = "done"
  /\ UNCHANGED <<variant, prog, code, cleanCode, variables, lineNo, group>>
  /\ UNCHANGED notConverter

\* part_000: the variable table
ExtractVariables ==
  /\ pc = "variables"
  /\ variables' = VariableTable(cleanCode)
  /\ pc' = "complex"
  /\ UNCHANGED <<variant, prog, code, cleanCode, lineNo, group, console, result>>
  /\ UNCHANGED notConverter

\* part_000: a difference, union or linear_extrude is parsed from the whole text
\* and, when that gives an object, the group is returned with it alone
ParseComplex ==
  /\ pc = "complex"
  /\ \E parsed \in {parseComplexStructure(cleanCode, variables)} :
       IF ~parsed.isNull
       THEN /\ group' = <<parsed>>
            /\ result' = Returned(<<parsed>>)
            /\ pc' = "done"
       ELSE /\ pc' = "loop"
            /\ UNCHANGED <<group, result>>
  /\ UNCHANGED <<variant, prog, code, cleanCode, variables, lineNo, console>>
  /\ UNCHANGED notConverter

\* part_000: one turn of the fallback loop over the lines
ParseLineV ==
  /\ pc = "loop"
  /\ variant = "app"
  /\ lineNo <= Len(Lines)
  /\ LET trimmed == Trim(Lines[lineNo])
         obj == IF trimmed = <<>> THEN null ELSE LineObjectV(trimmed, variables) IN
       /\ group' = IF obj.isNull THEN group ELSE Append(group, obj)
       /\ console' = IF trimmed = <<>> THEN console ELSE console \o LineLogV(trimmed)
  /\ lineNo' = lineNo + 1
  /\ UNCHANGED <<variant, prog, code, pc, cleanCode, variables, result>>
  /\ UNCHANGED notConverter

\* part_000: after the loop, an empty group gets a placeholder box
FinishV ==
  /\ pc = "loop"
  /\ variant = "app"
  /\ lineNo > Len(Lines)
  /\ group' = IF Len(group) = 0 THEN <<Placeholder>> ELSE group
  /\ result' = Returned(group')
  /\ pc' = "done"
  /\ UNCHANGED <<variant, prog, code, cleanCode, variables, lineNo, console>>
  /\ UNCHANGED notConverter

Next ==
  \/ StripComments
  \/ ParseLine
  \/ Finish
  \/ ExtractVariables
  \/ ParseComplex
  \/ ParseLineV
  \/ FinishV

Spec == Init /\ [][Next]_vars

CylinderSpec == CylinderInit /\ [][Next]_vars

\* The steps of the utils converter compute the function of the text.
StepsAgree ==
  pc = "done" =>
    result = IF variant = "utils" THEN parseOpenSCADToThreeJS(code)
             ELSE parseOpenSCADToThreeJSV(code)


----------------------------------------------------------------------------
(* What the claims speak of *)

Done == pc = "done"

PrimKinds == {"cube3", "cube1", "sphere", "cylinder"}

\* A primitive call all of whose parameters are numbers
IsLiteralPrim(st) ==
  /\ st.k \in PrimKinds
  /\ \A i \in 1..Len(st.a) : st.a[i] \in NumTok

\* A primitive call with an identifier among its parameters
IsIdentPrim(st) ==
  /\ st.k \in PrimKinds
  /\ \E i \in 1..Len(st.a) : st.a[i] \notin NumTok

\* The mesh the primitive call yields when it is the whole text.
Alone(st) ==
  IF variant = "utils" THEN parseOpenSCADToThreeJS(BodyText(st.k, st.a)).children[1]
  ELSE parseOpenSCADToThreeJSV(BodyText(st.k, st.a)).children[1]

\* The local transform of a scene object, and the one a transform statement asks for
Xf(o) == [position |-> o.position, rotation |-> o.rotation]
XfOf(w) ==
  LET v == Vec3(2 * NumVal(w.v[1]), 2 * NumVal(w.v[2]), 2 * NumVal(w.v[3])) IN
  IF w.name = "translate" THEN [position |-> v, rotation |-> Vec3(0, 0, 0)]
  ELSE [position |-> Vec3(0, 0, 0),
        rotation |-> Vec3(DegToRad(v[1]), DegToRad(v[2]), DegToRad(v[3]))]

\* The meshes of a scene in order, each with the transforms of its ancestors,
\* outermost first.
RECURSIVE FlatFrom(_, _)
FlatFrom(children, chain) ==
  IF children = <<>> THEN <<>>
  ELSE LET h == Head(children) IN
    (IF h.type = "Mesh" THEN <<[mesh |-> h, chain |-> chain]>>
     ELSE FlatFrom(h.children, Append(chain, Xf(h))))
    \o FlatFrom(Tail(children), chain)

Flat == FlatFrom(result.children, <<>>)

SameGeometry(m1, m2) ==
  /\ m1.shape = m2.shape
  /\ m1.args = m2.args
  /\ m1.position = m2.position
  /\ m1.rotation = m2.rotation

\* The unmatched statements the call has put on record.  The returned group
\* carries nothing but its children; the only record is the console warning.
Diagnostics == SelectSeq(console, LAMBDA e : e = "warn: Could not parse cube")

----------------------------------------------------------------------------
(* C1 *)

NothingRecognized ==
  \A i \in 1..Len(prog) :
    prog[i].k \in {"malformed", "assign", "linecomment", "blockcomment"}

\* C1: a text in which no statement is recognized makes the call fail with the
\* no-geometry error, in both converters; no group with a substitute shape is
\* returned.
C1_NoGeometryFails ==
  (Done /\ NothingRecognized) =>
    /\ result.status = "thrown"
    /\ result.message = NoGeometryMessage

----------------------------------------------------------------------------
(* C2 *)

OneGoodOneBad ==
  /\ Len(prog) = 2
  /\ \E i, j \in 1..2 :
       /\ i # j
       /\ IsLiteralPrim(prog[i]) /\ prog[i].wraps = <<>>
       /\ prog[j].k = "malformed"

GoodOf == prog[CHOOSE i \in 1..2 : IsLiteralPrim(prog[i])]

\* C2: one recognized and one malformed statement, in either order, on one line
\* or on two: the call returns, the scene holds the mesh of the recognized
\* statement, and exactly one unmatched-statement diagnostic is on record.
C2_PartialRender ==
  (Done /\ variant = "utils" /\ OneGoodOneBad) =>
    /\ result.status = "returned"
    /\ \E i \in 1..Len(Flat) : Flat[i].mesh = Alone(GoodOf)
    /\ Len(Diagnostics) = 1

----------------------------------------------------------------------------
(* C3 *)

OneDifference == Len(prog) = 1 /\ prog[1].k = "difference"

\* C3: a difference() block alone in the text yields exactly one mesh, that of
\* its first child, with a material other than the child's own.
C3_DifferenceFirstChild ==
  (Done /\ variant = "utils" /\ OneDifference) =>
    /\ result.status = "returned"
    /\ Len(Flat) = 1
    /\ SameGeometry(Flat[1].mesh, Alone(prog[1].kids[1]))
    /\ Flat[1].mesh.color # Alone(prog[1].kids[1]).color

----------------------------------------------------------------------------
(* C4 *)

OneTranslated ==
  /\ Len(prog) = 1
  /\ IsLiteralPrim(prog[1])
  /\ Len(prog[1].wraps) = 1
  /\ prog[1].wraps[1].name = "translate"

\* C4: translate([a,b,c]) before a primitive, on the same line or on the line
\* before it: the scene holds the primitive's mesh under the offset (a,b,c).
C4_TranslateOffsets ==
  (Done /\ variant = "utils" /\ OneTranslated) =>
    /\ result.status = "returned"
    /\ \E i \in 1..Len(Flat) :
         /\ Flat[i].mesh = Alone(prog[1])
         /\ Flat[i].chain = <<XfOf(prog[1].wraps[1])>>

----------------------------------------------------------------------------
(* C5 *)

AllPrimitives ==
  /\ Len(prog) >= 1
  /\ \A i \in 1..Len(prog) : IsLiteralPrim(prog[i]) /\ Len(prog[i].wraps) <= 1

\* the mesh and the ancestor transforms a statement stands for
Meant(st) ==
  [mesh |-> Alone(st), chain |-> [i \in 1..Len(st.wraps) |-> XfOf(st.wraps[i])]]

\* C5: n primitive statements, each under at most one transform, in any layout,
\* yield exactly n meshes, one per statement, in the order of the text.
C5_OneMeshPerStatement ==
  (Done /\ variant = "utils" /\ AllPrimitives) =>
    /\ result.status = "returned"
    /\ Flat = [i \in 1..Len(prog) |-> Meant(prog[i])]

----------------------------------------------------------------------------
(* C6 *)

OneCube ==
  /\ Len(prog) = 1
  /\ prog[1].k \in {"cube3", "cube1"}
  /\ IsLiteralPrim(prog[1])
  /\ prog[1].wraps = <<>>

\* the extents the statement names, in the units of the model
NamedExtents(st) ==
  IF st.k = "cube1"
  THEN Vec3(2 * NumVal(st.a[1]), 2 * NumVal(st.a[1]), 2 * NumVal(st.a[1]))
  ELSE Vec3(2 * NumVal(st.a[1]), 2 * NumVal(st.a[2]), 2 * NumVal(st.a[3]))

\* C6: cube([x,y,z]) yields a box of extents (x,y,z) at the position
\* (x/2,y/2,z/2), and cube(s) a box of extents (s,s,s).
C6_CubeExtents ==
  (Done /\ variant = "utils" /\ OneCube) =>
    /\ result.status = "returned"
    /\ Len(result.children) = 1
    /\ result.children[1].shape = "Box"
    /\ result.children[1].args = NamedExtents(prog[1])
    /\ \A i \in 1..3 :
         2 * result.children[1].position[i] = NamedExtents(prog[1])[i]

----------------------------------------------------------------------------
(* C7 *)

\* Bare primitive statements, one per line, with the identifier w in at least
\* one parameter list and no assignment of w anywhere
UnresolvedCase ==
  /\ Len(prog) >= 1
  /\ \A i \in 1..Len(prog) :
       prog[i].k \in PrimKinds /\ prog[i].wraps = <<>> /\ prog[i].sep = "\n"
  /\ \E i \in 1..Len(prog) : IsIdentPrim(prog[i])

\* the statements of the text all of whose parameters are numbers, in order
LiteralStmts == SelectSeq(prog, LAMBDA st : IsLiteralPrim(st))

\* C7: a primitive with an unassigned identifier in its parameters yields no
\* mesh, and every other statement yields its mesh: the scene holds the meshes
\* of the other statements and nothing else (so no mesh of a NaN or defaulted
\* dimension).
C7_UnresolvedSkipped ==
  (Done /\ UnresolvedCase) =>
    Flat = [i \in 1..Len(LiteralStmts) |-> Meant(LiteralStmts[i])]

----------------------------------------------------------------------------
(* C8 *)

\* w = number; and one bare primitive with w among its parameters
AssignedCase ==
  /\ Len(prog) = 2
  /\ \E i, j \in 1..2 :
       /\ i # j
       /\ prog[i].k = "assign"
       /\ IsIdentPrim(prog[j]) /\ prog[j].wraps = <<>>

AssignOf == prog[CHOOSE i \in 1..2 : prog[i].k = "assign"]

\* the text with the assigned number written in place of the name
Literally(st) ==
  IF st.k = "assign" THEN st
  ELSE [st EXCEPT !.a = [i \in 1..Len(st.a) |->
                           IF st.a[i] = AssignOf.a[1] THEN AssignOf.a[2] ELSE st.a[i]]]

\* C8: with name = number; in the text, a reference to the name in the
\* parameters of a primitive evaluates as the number written literally would.
C8_VariablesResolved ==
  (Done /\ variant = "app" /\ AssignedCase) =>
    result = parseOpenSCADToThreeJSV(Render([i \in 1..2 |-> Literally(prog[i])]))

----------------------------------------------------------------------------
(* C9 *)

\* Primitive statements with literal parameters under any transforms
TransformProgram ==
  /\ Len(prog) >= 1
  /\ \A i \in 1..Len(prog) : IsLiteralPrim(prog[i])
  /\ \E i \in 1..Len(prog) : Len(prog[i].wraps) >= 1

\* the wrapper the j-th transform of a statement stands for, with its one child
RECURSIVE Wrapper(_, _)
Wrapper(st, j) ==
  [Group EXCEPT
     !.position = XfOf(st.wraps[j]).position,
     !.rotation = XfOf(st.wraps[j]).rotation,
     !.children = IF j = Len(st.wraps) THEN <<Alone(st)>> ELSE <<Wrapper(st, j + 1)>>]

\* every group of a scene, at any depth
RECURSIVE GroupsOf(_)
GroupsOf(children) ==
  IF children = <<>> THEN {}
  ELSE (IF Head(children).type = "Group"
        THEN {Head(children)} \cup GroupsOf(Head(children).children) ELSE {})
       \cup GroupsOf(Tail(children))

\* C9: every transform wrapper of the scene has exactly one child, the
\* statement that follows that wrapper in the text.
C9_WrapperHasItsChild ==
  (Done /\ variant = "utils" /\ TransformProgram) =>
    \A g \in GroupsOf(result.children) :
      /\ Len(g.children) = 1
      /\ \E i \in 1..Len(prog) : \E j \in 1..Len(prog[i].wraps) : g = Wrapper(prog[i], j)

----------------------------------------------------------------------------
(* C10 *)

OneNested ==
  /\ Len(prog) = 1
  /\ IsLiteralPrim(prog[1])
  /\ Len(prog[1].wraps) = 2

\* C10: a transform whose child is a transform of a primitive: the scene holds
\* the primitive's mesh under the outer and then the inner transform.
C10_NestedComposed ==
  (Done /\ variant = "utils" /\ OneNested) =>
    /\ result.status = "returned"
    /\ \E i \in 1..Len(Flat) :
         /\ Flat[i].mesh = Alone(prog[1])
         /\ Flat[i].chain = <<XfOf(prog[1].wraps[1]), XfOf(prog[1].wraps[2])>>

----------------------------------------------------------------------------
(* C11 *)

OneUnion == Len(prog) = 1 /\ prog[1].k = "union"

\* a mesh of the scene is the mesh of a child when it has the child's geometry
IsMeshOf(m, kid) ==
  /\ m.shape = Alone(kid).shape
  /\ m.args = Alone(kid).args

\* C11: a union() block of n children (cube, sphere, cylinder, each alone or
\* under a translate) yields exactly n meshes, one per child: none is missing and
\* none is there twice.
C11_UnionAllChildren ==
  (Done /\ OneUnion) =>
    /\ result.status = "returned"
    /\ Len(Flat) = Len(prog[1].kids)
    /\ \E f \in Permutations(1..Len(prog[1].kids)) :
         \A i \in 1..Len(Flat) : IsMeshOf(Flat[i].mesh, prog[1].kids[f[i]])

----------------------------------------------------------------------------
(* C12 *)

CommentKinds == {"linecomment", "blockcomment", "blocklines", "unterminated", "blockslash"}

\* One comment and one primitive statement with literal parameters
CommentCase ==
  /\ Len(prog) = 2
  /\ \E i, j \in 1..2 :
       /\ i # j
       /\ prog[i].k \in CommentKinds
       /\ IsLiteralPrim(prog[j]) /\ prog[j].wraps = <<>>

\* The statement written inside the i-th statement when that is a comment
HasInner(i) == prog[i].k \in CommentKinds \ {"blockslash"}
Inner(i) == Body("cube1", prog[i].a)

\* The i-th statement lies inside a comment: it follows // on the same line, or
\* it follows a block comment that is not closed
InComment(i) ==
  /\ i = 2
  /\ \/ prog[1].k = "linecomment" /\ prog[1].sep = " "
     \/ prog[1].k = "unterminated"

Shown(st) == \E n \in 1..Len(Flat) : IsMeshOf(Flat[n].mesh, st)

\* C12: a statement inside a line comment or a block comment (closed, on one
\* line or on several, or not closed) yields no geometry, and a statement outside
\* every comment yields its mesh.
C12_CommentsStripped ==
  (Done /\ CommentCase) =>
    \A i \in 1..2 :
      /\ HasInner(i) => ~Shown(Inner(i))
      /\ IsLiteralPrim(prog[i]) => (Shown(prog[i]) <=> ~InComment(i))

----------------------------------------------------------------------------
(* C19 *)

CylinderKinds == {"cylinder", "cone", "coner", "conebottom"}

OneCylinder == Len(prog) = 1 /\ prog[1].k \in CylinderKinds

\* the height, the bottom radius and the top radius the call names
NamedHeight(st) == 2 * NumVal(st.a[1])
NamedBottom(st) ==
  2 * NumVal(IF st.k \in {"cylinder", "conebottom"} THEN
               (IF st.k = "cylinder" THEN st.a[2] ELSE st.a[3])
             ELSE IF st.k = "cone" THEN st.a[2] ELSE st.a[3])
NamedTop(st) ==
  2 * NumVal(IF st.k \in {"cylinder", "conebottom"} THEN st.a[2]
             ELSE IF st.k = "cone" THEN st.a[3] ELSE st.a[4])

Cylinders == SelectSeq(Flat, LAMBDA e : e.mesh.shape = "Cylinder")

\* C19: cylinder(...) with named parameters yields a cylinder mesh of height h,
\* bottom radius r1 and top radius r2 where these are given and r otherwise, with
\* the rotation of a quarter turn about X, alone or under a translate or rotate.
C19_CylinderParameters ==
  (Done /\ OneCylinder) =>
    /\ result.status = "returned"
    /\ Len(Cylinders) >= 1
    /\ \A i \in 1..Len(Cylinders) :
         /\ Cylinders[i].mesh.args =
              <<NamedTop(prog[1]), NamedBottom(prog[1]), NamedHeight(prog[1]), 32>>
         /\ Cylinders[i].mesh.rotation = Vec3(HalfPi, 0, 0)

\* a frustum under a transform has been evaluated
C19_Witness ==
  /\ Done /\ OneCylinder
  /\ prog[1].k = "coner" /\ Len(prog[1].wraps) = 1
  /\ Len(Cylinders) >= 1
  /\ Cylinders[1].mesh.args[1] # Cylinders[1].mesh.args[2]
  /\ Cylinders[1].chain # <<>>

----------------------------------------------------------------------------
(* C13 *)

StlDone == xPc = "done"

HasMesh == Len(TraverseMeshes(xGroup)) >= 1

\* the number of triangles a mesh stores
TriangleCount(mesh) ==
  IF mesh.geometry.indexed THEN Len(mesh.geometry.index) \div 3
  ELSE Len(mesh.geometry.position) \div 3

\* the k-th vertex (1, 2, 3) of the t-th triangle of a mesh, where the mesh stands
Corner(mesh, t, k) ==
  applyMatrix4(
    IF mesh.geometry.indexed
    THEN mesh.geometry.position[mesh.geometry.index[3 * (t - 1) + k] + 1]
    ELSE mesh.geometry.position[3 * (t - 1) + k],
    mesh.matrixWorld)

\* the triangles of all meshes, in the order of the meshes
RECURSIVE AllCorners(_)
AllCorners(meshes) ==
  IF meshes = <<>> THEN <<>>
  ELSE [t \in 1..TriangleCount(Head(meshes)) |->
          [k \in 1..3 |-> Corner(Head(meshes), t, k)]]
       \o AllCorners(Tail(meshes))

FacetKinds ==
  <<"facet normal", "outer loop", "vertex", "vertex", "vertex", "endloop", "endfacet">>

\* C13: for a group with at least one mesh the text is 'solid model', one facet
\* block of seven lines per stored triangle of every mesh (index.count/3 for an
\* indexed geometry, position.count/3 otherwise), each with the three vertices of
\* its triangle in order, and 'endsolid model'.
C13_FacetPerTriangle ==
  (StlDone /\ HasMesh) =>
    /\ xResult.status = "returned"
    /\ Len(xResult.stl) = 2 + 7 * Len(AllCorners(TraverseMeshes(xGroup)))
    /\ xResult.stl[1] = Words("solid model")
    /\ xResult.stl[Len(xResult.stl)] = Words("endsolid model")
    /\ \A f \in 1..Len(AllCorners(TraverseMeshes(xGroup))) :
         /\ \A j \in 1..7 : xResult.stl[1 + 7 * (f - 1) + j].kind = FacetKinds[j]
         /\ Len(xResult.stl[1 + 7 * (f - 1) + 1].text) = 3
         /\ \A k \in 1..3 :
              xResult.stl[1 + 7 * (f - 1) + 2 + k] =
                VertexLine(AllCorners(TraverseMeshes(xGroup))[f][k])

\* an indexed mesh and a triangle soup have been written into one text
C13_Witness ==
  /\ StlDone /\ HasMesh
  /\ xResult.status = "returned"
  /\ \E i, j \in 1..Len(xMeshes) :
       /\ xMeshes[i].geometry.indexed /\ TriangleCount(xMeshes[i]) = 2
       /\ ~xMeshes[j].geometry.indexed /\ TriangleCount(xMeshes[j]) = 2
  /\ Len(xResult.stl) = 30

----------------------------------------------------------------------------
(* The objects of the viewer: what parseOpenSCADToThreeJS returns, as       *)
(* three.js holds it (geometry attributes, local transform, matrixWorld)    *)

\* One side of BoxGeometry (buildPlane with one segment each way): the four
\* corners in the order iy = 0, 1 and ix = 0, 1 inside; u, v, w are the
\* places 1..3 of the axes, depth is negative on the sides that face down.
buildPlane(u, v, w, udir, vdir, width, height, depth) ==
  [n \in 1..4 |->
     [k \in 1..3 |->
        IF k = u THEN Times(IF n \in {1, 3} THEN Neg(Half(width)) ELSE Half(width), udir)
        ELSE IF k = v THEN Times(IF n \in {1, 2} THEN Neg(Half(height)) ELSE Half(height), vdir)
        ELSE Half(depth)]]

buildPlaneNormals(w, depth) ==
  [n \in 1..4 |-> [k \in 1..3 |-> IF k # w THEN 0 ELSE IF depth > 0 THEN 1 ELSE -1]]

\* indices.push(a, b, d); indices.push(b, c, d) with a, b, c, d the corners
\* 0, 2, 3, 1 of the side that starts at vertex number first
buildPlaneIndices(first) ==
  <<first, first + 2, first + 1, first + 2, first + 3, first + 1>>

\* new THREE.BoxGeometry(width, height, depth): the sides px, nx, py, ny, pz, nz
BoxGeometry(width, height, depth) ==
  BufferGeometry(
    buildPlane(3, 2, 1, -1, -1, depth, height, width)
      \o buildPlane(3, 2, 1, 1, -1, depth, height, Neg(width))
      \o buildPlane(1, 3, 2, 1, 1, width, depth, height)
      \o buildPlane(1, 3, 2, 1, -1, width, depth, Neg(height))
      \o buildPlane(1, 2, 3, 1, -1, width, height, depth)
      \o buildPlane(1, 2, 3, -1, -1, width, height, Neg(depth)),
    buildPlaneNormals(1, width) \o buildPlaneNormals(1, Neg(width))
      \o buildPlaneNormals(2, height) \o buildPlaneNormals(2, Neg(height))
      \o buildPlaneNormals(3, depth) \o buildPlaneNormals(3, Neg(depth)),
    TRUE,
    buildPlaneIndices(0) \o buildPlaneIndices(4) \o buildPlaneIndices(8)
      \o buildPlaneIndices(12) \o buildPlaneIndices(16) \o buildPlaneIndices(20))

\* The geometry of a mesh of the converter.  The texts of the viewer hold
\* cubes only: the vertices of a sphere or a cylinder are no rationals.
GeometryOf(o) ==
  CASE o.shape = "Box" -> BoxGeometry(o.args[1], o.args[2], o.args[3])

\* An object as the converter leaves it: the local transform set, matrixWorld
\* still the identity of a new Object3D.  turn is the rotation the viewer
\* adds, in steps of 0.005 rad.
RECURSIVE NewObject(_)
NewObject(o) ==
  [type |-> o.type,
   geometry |-> IF o.type = "Mesh" THEN GeometryOf(o) ELSE NoAttributes,
   position |-> o.position, rotation |-> o.rotation, turn |-> <<0, 0, 0>>,
   matrixWorld |-> Identity4,
   children |-> [i \in 1..Len(o.children) |-> NewObject(o.children[i])]]

\* Object3D.updateMatrixWorld: updateMatrix composes the local matrix, then
\* matrixWorld = parent.matrixWorld * matrix, and the same for the children
RECURSIVE updateMatrixWorld(_, _)
updateMatrixWorld(obj, parentWorld) ==
  [obj EXCEPT
     !.matrixWorld = parentWorld \o <<Step(obj.position, obj.rotation, obj.turn)>>,
     !.children = [i \in 1..Len(obj.children) |->
                     updateMatrixWorld(obj.children[i],
                       parentWorld \o <<Step(obj.position, obj.rotation, obj.turn)>>)]]

\* A change that forgets the world matrices (for comparison)
setFromObjectStale(obj) == obj

\* new THREE.Box3().setFromObject(obj): expandByObject calls
\* updateWorldMatrix(false, false) on the object and on every descendant,
\* parents first; the parent of the model is the scene, whose matrix is the
\* identity.  (The box itself is used for the camera only.)
setFromObject(obj) == updateMatrixWorld(obj, Identity4)

\* renderer.render(scene, camera): scene.updateMatrixWorld() before drawing
render(obj) == updateMatrixWorld(obj, Identity4)

----------------------------------------------------------------------------
(* The viewer: the texts it is given and the bounds of its runs *)

\* The evaluations a run makes at most, the STL files it writes at most, the
\* steps of 0.005 rad a model is turned at most about one axis, the notches
\* the wheel moves the camera at most
MaxParses == 2
MaxExports == 1
MaxTurn == 2
MaxWheel == 1

\* a cube under a translate written on the line before (a group with the cube
\* in it, and the cube once more beside it); a call that is no geometry; a
\* rotate with no child (a group without meshes); the empty text
ViewerPrograms ==
  {<<Stmt("cube3", <<"2", "1", "3">>, <<T1>>, "next", <<>>, "\n")>>,
   <<Stmt("malformed", <<>>, <<>>, "same", <<>>, "\n")>>,
   <<Stmt("assign", <<"w", "3">>, <<R1>>, "next", <<>>, "\n")>>,
   <<>>}
ViewerTexts == {Render(p) : p \in ViewerPrograms}

\* clientX, clientY of a mouse event
Pixels == {<<0, 0>>, <<1, 0>>}

\* deltaY of a wheel event
WheelDeltas == {-100, 100}

NoModelMessage == "No model to export"
NoChildrenMessage == "No valid geometry found in OpenSCAD code"

\* The group parseOpenSCADToThreeJS returned, held by modelGroupRef; id tells
\* the groups of a run apart (the number of the evaluation that made it), and
\* text is the code it was made from.
Model(id, text, obj) == [isNull |-> FALSE, id |-> id, text |-> text, obj |-> obj]

\* The models attached to the scene, without the one held
Removed == IF modelGroupRef.isNull THEN scene ELSE scene \ {modelGroupRef.id}

\* Box3 of a group without a mesh is empty, its size 0: the camera stays
Fits(obj) == Len(TraverseMeshes(obj)) > 0

----------------------------------------------------------------------------
(* The effects of OpenSCADRenderer *)

\* useEffect(..., [code, sceneReady]), lines 210-286, run with the text c and
\* the value ready of sceneReady the render saw
ModelUpdate(c, ready) ==
  IF c = <<>>
  THEN /\ modelGroupRef' = IF sceneRef' THEN null ELSE modelGroupRef
       /\ scene' = IF sceneRef' THEN Removed ELSE scene
       /\ UNCHANGED <<disposed, error, isRendering, camera, parseLog>>
  ELSE IF ~ready \/ ~sceneRef'
  THEN UNCHANGED <<modelGroupRef, scene, disposed, error, isRendering, camera, parseLog>>
  ELSE
    /\ disposed' = IF modelGroupRef.isNull THEN disposed
                   ELSE disposed \cup {modelGroupRef.id}
    /\ parseLog' = Append(parseLog, c)
    /\ isRendering' = FALSE
    /\ \E r \in {parseOpenSCADToThreeJS(c)} :
         IF r.status = "thrown"
         THEN /\ error' = r.message
              /\ scene' = Removed
              /\ UNCHANGED <<modelGroupRef, camera>>
         ELSE IF Len(r.children) = 0
         THEN /\ error' = NoChildrenMessage
              /\ scene' = Removed
              /\ UNCHANGED <<modelGroupRef, camera>>
         ELSE \E obj \in {setFromObject(NewObject([Group EXCEPT !.children = r.children]))} :
              /\ error' = ""
              /\ scene' = Removed \cup {Len(parseLog')}
              /\ modelGroupRef' = Model(Len(parseLog'), c, obj)
              /\ camera' = IF Fits(obj) THEN [fitted |-> Len(parseLog'), wheel |-> 0]
                           ELSE camera

\* The component is mounted with the code the App holds: the first effect
\* makes the scene and starts the animation loop (lines 123-207), the second
\* runs with sceneReady still false.
InitScene ==
  /\ ~sceneRef
  /\ sceneRef' = TRUE
  /\ ModelUpdate(openscadCode, sceneReady)
  /\ UNCHANGED <<openscadCode, sceneReady, isExporting, isDragging, lastPos, autoRotate,
                 downloads, uncaught, burst, clicks, autoBefore>>
  /\ UNCHANGED notView

\* A change in which the model effect does not depend on sceneReady: the
\* render of setSceneReady(true) runs no effect (for comparison)
SceneReadyNoEffect ==
  /\ sceneRef /\ ~sceneReady
  /\ sceneReady' = TRUE
  /\ UNCHANGED <<openscadCode, sceneRef, modelGroupRef, scene, disposed, error, isRendering,
                 isExporting, isDragging, lastPos, autoRotate, camera, downloads, uncaught,
                 parseLog, burst, clicks, autoBefore>>
  /\ UNCHANGED notView

\* setSceneReady(true) of line 175 is rendered: the model effect runs again
SceneReady ==
  /\ sceneRef /\ ~sceneReady
  /\ sceneReady' = TRUE
  /\ sceneRef' = sceneRef
  /\ ModelUpdate(openscadCode, TRUE)
  /\ UNCHANGED <<openscadCode, isExporting, isDragging, lastPos, autoRotate,
                 downloads, uncaught, burst, clicks, autoBefore>>
  /\ UNCHANGED notView

----------------------------------------------------------------------------
(* The code changes *)

\* setOpenscadCode(newCode) and the render that follows it: the model effect
\* runs when the text differs from the one held (its dependency changed)
setOpenscadCode(newCode) ==
  /\ openscadCode' = newCode
  /\ sceneRef' = sceneRef
  /\ IF newCode = openscadCode
     THEN UNCHANGED <<modelGroupRef, scene, disposed, error, isRendering, camera, parseLog>>
     ELSE ModelUpdate(newCode, sceneReady)
  /\ burst' = [changes |-> burst.changes + 1,
               evaluations |-> burst.evaluations + Len(parseLog') - Len(parseLog)]
  /\ UNCHANGED <<sceneReady, isExporting, isDragging, lastPos, autoRotate,
                 downloads, uncaught, clicks, autoBefore>>
  /\ UNCHANGED notView

\* CodeEditor.handleChange (lines 546-550) and App.handleCodeEdit: a key
\* stroke in the editor changes the text
handleChange ==
  /\ sceneRef
  /\ Len(parseLog) < MaxParses /\ burst.changes < MaxParses
  /\ \E newCode \in ViewerTexts \ {openscadCode} : setOpenscadCode(newCode)

\* App.handleSendMessage, line 66: the code of a response arrives
handleSendMessage ==
  /\ sceneRef
  /\ Len(parseLog) < MaxParses /\ burst.changes < MaxParses
  /\ \E newCode \in ViewerTexts : setOpenscadCode(newCode)

\* Nothing changes the code for longer than a burst of changes lasts
Pause ==
  /\ burst.changes > 0
  /\ burst' = [changes |-> 0, evaluations |-> 0]
  /\ UNCHANGED <<openscadCode, sceneRef, sceneReady, modelGroupRef, scene, disposed, error,
                 isRendering, isExporting, isDragging, lastPos, autoRotate, camera,
                 downloads, uncaught, parseLog, clicks, autoBefore>>
  /\ UNCHANGED notView

----------------------------------------------------------------------------
(* The animation loop and the event handlers *)

\* The model held, turned by steps of 0.005 rad about x and about y
Turned(aboutX, aboutY) ==
  [modelGroupRef EXCEPT !.obj.turn = <<@[1] + aboutX, @[2] + aboutY, @[3]>>]

InTurn(m) ==
  /\ m.obj.turn[1] \in -MaxTurn..MaxTurn
  /\ m.obj.turn[2] \in -MaxTurn..MaxTurn

\* renderer.render(scene, camera) updates the world matrices of what is in
\* the scene
Rendered(m) ==
  IF ~m.isNull /\ m.id \in scene THEN [m EXCEPT !.obj = render(@)] ELSE m

\* One frame of animate (lines 178-187)
animate ==
  /\ sceneRef
  /\ \E m \in {IF autoRotate /\ ~modelGroupRef.isNull /\ ~isDragging
               THEN Turned(0, 1) ELSE modelGroupRef} :
       /\ IF m.isNull THEN TRUE ELSE InTurn(m)
       /\ modelGroupRef' = Rendered(m)
  /\ UNCHANGED <<openscadCode, sceneRef, sceneReady, scene, disposed, error, isRendering,
                 isExporting, isDragging, lastPos, autoRotate, camera, downloads,
                 uncaught, parseLog, burst, clicks, autoBefore>>
  /\ UNCHANGED notView

\* handleMouseDown (lines 288-292).  The browser counts the clicks: a press
\* begins a click sequence, or is the second press of a double click.
handleMouseDown ==
  /\ sceneRef /\ clicks \in {0, 2}
  /\ \E e \in Pixels, second \in BOOLEAN :
       /\ second => clicks = 2
       /\ isDragging' = TRUE
       /\ autoRotate' = FALSE
       /\ lastPos' = e
       /\ clicks' = IF second THEN 3 ELSE 1
       /\ autoBefore' = IF second THEN autoBefore ELSE autoRotate
  /\ UNCHANGED <<openscadCode, sceneRef, sceneReady, modelGroupRef, scene, disposed, error,
                 isRendering, isExporting, camera, downloads, uncaught, parseLog, burst>>
  /\ UNCHANGED notView

\* handleMouseMove (lines 294-304): 0.01 rad, two steps, for each pixel.  A
\* pointer that moves ends the click sequence.
handleMouseMove ==
  /\ sceneRef /\ clicks # 4
  /\ \E e \in Pixels \ {lastPos} :
       IF ~isDragging \/ modelGroupRef.isNull
       THEN UNCHANGED <<modelGroupRef, lastPos>>
       ELSE /\ modelGroupRef' = Turned(2 * (e[2] - lastPos[2]), 2 * (e[1] - lastPos[1]))
            /\ InTurn(modelGroupRef')
            /\ lastPos' = e
  /\ clicks' = 0 /\ autoBefore' = TRUE
  /\ UNCHANGED <<openscadCode, sceneRef, sceneReady, scene, disposed, error, isRendering,
                 isExporting, isDragging, autoRotate, camera, downloads, uncaught,
                 parseLog, burst>>
  /\ UNCHANGED notView

\* handleMouseUp (lines 306-308) bound to onMouseUp
handleMouseUp ==
  /\ sceneRef /\ clicks \in {1, 3}
  /\ isDragging' = FALSE
  /\ clicks' = clicks + 1
  /\ UNCHANGED <<openscadCode, sceneRef, sceneReady, modelGroupRef, scene, disposed, error,
                 isRendering, isExporting, lastPos, autoRotate, camera, downloads,
                 uncaught, parseLog, burst, autoBefore>>
  /\ UNCHANGED notView

\* handleMouseUp bound to onMouseLeave (line 390)
handleMouseLeave ==
  /\ sceneRef /\ clicks # 4
  /\ isDragging' = FALSE
  /\ clicks' = 0 /\ autoBefore' = TRUE
  /\ UNCHANGED <<openscadCode, sceneRef, sceneReady, modelGroupRef, scene, disposed, error,
                 isRendering, isExporting, lastPos, autoRotate, camera, downloads,
                 uncaught, parseLog, burst>>
  /\ UNCHANGED notView

\* handleDoubleClick (lines 310-312): the browser sends dblclick after the
\* second release
handleDoubleClick ==
  /\ sceneRef /\ clicks = 4
  /\ autoRotate' = ~autoRotate
  /\ clicks' = 0 /\ autoBefore' = TRUE
  /\ UNCHANGED <<openscadCode, sceneRef, sceneReady, modelGroupRef, scene, disposed, error,
                 isRendering, isExporting, isDragging, lastPos, camera, downloads,
                 uncaught, parseLog, burst>>
  /\ UNCHANGED notView

\* handleWheel (lines 314-334) moves the camera along its line of sight by
\* deltaY * 0.01 and keeps its distance from the origin within 5..200; the
\* camera is held as the model it was fitted to and the notches it was moved
\* towards the model since.
handleWheel ==
  /\ sceneRef
  /\ \E deltaY \in WheelDeltas :
       /\ camera.wheel + deltaY \div 100 \in 0..MaxWheel
       /\ camera' = [camera EXCEPT !.wheel = @ + deltaY \div 100]
  /\ UNCHANGED <<openscadCode, sceneRef, sceneReady, modelGroupRef, scene, disposed, error,
                 isRendering, isExporting, isDragging, lastPos, autoRotate, downloads,
                 uncaught, parseLog, burst, clicks, autoBefore>>
  /\ UNCHANGED notView

\* handleResetView (lines 355-373): the box of the model is measured again
\* and the camera put back
handleResetView ==
  /\ sceneRef /\ ~modelGroupRef.isNull
  /\ modelGroupRef' = [modelGroupRef EXCEPT !.obj = setFromObject(@)]
  /\ camera' = [fitted |-> modelGroupRef.id, wheel |-> 0]
  /\ UNCHANGED <<openscadCode, sceneRef, sceneReady, scene, disposed, error, isRendering,
                 isExporting, isDragging, lastPos, autoRotate, downloads, uncaught,
                 parseLog, burst, clicks, autoBefore>>
  /\ UNCHANGED notView

\* A change that writes a text for a group without meshes (for comparison)
exportToSTLUnchecked(root) ==
  StlReturned(<<Words("solid model")>> \o MeshesText(TraverseMeshes(root))
                \o <<Words("endsolid model")>>)

\* exportToSTL (stlExporter.ts 4-12): the text of generateSTL goes to
\* downloadSTL; an error of generateSTL is logged and thrown again
exportToSTL(root) == generateSTL(root)

\* handleExportSTL (lines 336-353), the click handler of the export button
handleExportSTL ==
  /\ sceneRef /\ Len(downloads) < MaxExports
  /\ IF modelGroupRef.isNull
     THEN /\ error' = NoModelMessage
          /\ UNCHANGED <<downloads, isExporting, uncaught>>
     ELSE \E r \in {exportToSTL(modelGroupRef.obj)} :
          /\ isExporting' = FALSE
          /\ uncaught' = ""
          /\ IF r.status = "returned"
             THEN /\ downloads' = Append(downloads, [id |-> modelGroupRef.id, stl |-> r.stl])
                  /\ error' = ""
             ELSE /\ downloads' = downloads
                  /\ error' = r.message
  /\ UNCHANGED <<openscadCode, sceneRef, sceneReady, modelGroupRef, scene, disposed,
                 isRendering, isDragging, lastPos, autoRotate, camera, parseLog, burst,
                 clicks, autoBefore>>
  /\ UNCHANGED notView

----------------------------------------------------------------------------
(* The viewer as a state machine *)

ViewInit ==
  /\ ViewIdle
  /\ ConverterIdle
  /\ StlIdle
  /\ AppIdle
  /\ GeminiIdle

ViewNext ==
  \/ InitScene
  \/ SceneReady
  \/ handleChange
  \/ handleSendMessage
  \/ Pause
  \/ animate
  \/ handleMouseDown
  \/ handleMouseMove
  \/ handleMouseUp
  \/ handleMouseLeave
  \/ handleDoubleClick
  \/ handleWheel
  \/ handleResetView
  \/ handleExportSTL

ViewSpec == ViewInit /\ [][ViewNext]_allVars

----------------------------------------------------------------------------
(* C14 *)

\* The group as the model effect leaves it when it has evaluated the text
Evaluated(text) ==
  setFromObject(NewObject([Group EXCEPT !.children = parseOpenSCADToThreeJS(text).children]))

\* C14: the text of an export is a function of the evaluated model alone: it
\* is the text generateSTL gives for the group as it was evaluated, whatever
\* animation frames, drags, wheel turns and view resets came before the
\* export (so that two exports of one evaluated scene are the same text).
C14_ExportIsPure ==
  \A i \in 1..Len(downloads) :
    downloads[i].stl = generateSTL(Evaluated(parseLog[downloads[i].id])).stl

----------------------------------------------------------------------------
(* C15 *)

\* The group of a text with the root turned by turn and every world matrix
\* the product of the whole chain above its object
InWorld(text, turn) ==
  updateMatrixWorld(
    [NewObject([Group EXCEPT !.children = parseOpenSCADToThreeJS(text).children])
       EXCEPT !.turn = turn],
    Identity4)

\* The turns a model can have, and for each text and turn what generateSTL
\* writes of the group in the world (a table, made once: the join with the
\* empty function enumerates it)
Turns == (-MaxTurn..MaxTurn) \X (-MaxTurn..MaxTurn) \X {0}
WrittenInWorld ==
  [text \in ViewerTexts, turn \in Turns |-> generateSTL(InWorld(text, turn))] @@ <<>>

\* The turn of the root a written text shows: the rotation its first vertex
\* still carries (none when the root was not turned)
TurnWritten(stl) == IF stl[4].m = <<>> THEN <<0, 0, 0>> ELSE stl[4].m[1].turn

\* C15: every vertex of an export is the local vertex of its mesh moved by
\* the whole chain of transforms of the mesh and of the groups above it (the
\* half extents of a cube, the translate round it, the turn of the model as a
\* whole), never the local coordinate, also when the export follows the
\* evaluation with no frame rendered between.
C15_WorldCoordinates ==
  \A i \in 1..Len(downloads) :
    /\ TurnWritten(downloads[i].stl) \in Turns
    /\ downloads[i].stl = WrittenInWorld[parseLog[downloads[i].id],
                                         TurnWritten(downloads[i].stl)].stl

\* the translated cube was exported before any frame or drag turned it: the
\* first mesh is the cube inside the group of the translate, and its first
\* vertex is the corner (1, 0.5, 1.5) of the box moved by (1, 0.5, 1.5) and
\* by (1, 0, 2)
C15_Witness ==
  /\ Len(downloads) = 1
  /\ ~modelGroupRef.isNull /\ modelGroupRef.id = downloads[1].id
  /\ modelGroupRef.obj.turn = <<0, 0, 0>>
  /\ modelGroupRef.obj.children[1].type = "Group"
  /\ modelGroupRef.obj.children[1].position = <<2, 0, 4>>
  /\ downloads[1].stl[4] = Line("vertex", <<"3", "1", "5">>, <<>>)

----------------------------------------------------------------------------
(* C16 *)

\* No mesh is there to export: no model is held, or the group held has none
NoMeshHeld == modelGroupRef.isNull \/ Len(TraverseMeshes(modelGroupRef.obj)) = 0

\* C16: a click on Export STL with no mesh present ends with the error state
\* set to the message of the failure, with no file handed to the download, no
\* error leaving the handler and isExporting false.
C16_EmptyExportFails ==
  [][(NoMeshHeld /\ handleExportSTL) =>
       /\ error' = (IF modelGroupRef.isNull THEN NoModelMessage ELSE NoMeshesMessage)
       /\ downloads' = downloads
       /\ uncaught' = ""
       /\ isExporting' = FALSE]_allVars

\* the export of a held group without meshes (a rotate with no child) has
\* failed
C16_Witness ==
  /\ ~modelGroupRef.isNull
  /\ Len(modelGroupRef.obj.children) = 1
  /\ Len(TraverseMeshes(modelGroupRef.obj)) = 0
  /\ error = NoMeshesMessage
  /\ downloads = <<>>
  /\ ~isExporting

----------------------------------------------------------------------------
(* C17 *)

\* C17: once the model effect has run for the code the App holds, the model
\* held for display, rotation and export is the group evaluated from that
\* code, attached to the scene, or there is none; a model of an earlier code
\* is never still held, also when the evaluation of the new code failed.
C17_HeldIsLatest ==
  sceneReady =>
    \/ modelGroupRef.isNull
    \/ /\ modelGroupRef.text = openscadCode
       /\ modelGroupRef.id \in scene

----------------------------------------------------------------------------
(* C18 *)

\* C18: the evaluation of the code is debounced: while code changes follow
\* one another with no pause (key strokes in the editor, a generated code
\* arriving after an edit), at most one evaluation is made for the burst,
\* so that no text that a later change of the burst replaces is evaluated.
C18_Debounced == burst.changes >= 2 => burst.evaluations <= 1

----------------------------------------------------------------------------
(* C20 *)

\* C20: a double click on the viewer toggles the automatic rotation: over the
\* events the browser delivers for it (mousedown, mouseup, mousedown, mouseup,
\* dblclick) a rotation that was on before the first mousedown is off after
\* the dblclick, and one that was off before is on after.
C20_DoubleClickToggles ==
  [][handleDoubleClick => autoRotate' = ~autoBefore]_allVars

----------------------------------------------------------------------------
(* C24 *)

\* The model removed from the scene is the one held; TRUE when it is model
\* id and has a mesh (a group without a mesh has nothing to dispose)
HeldWithMeshes(id) ==
  /\ ~modelGroupRef.isNull
  /\ modelGroupRef.id = id
  /\ Len(TraverseMeshes(modelGroupRef.obj)) > 0

\* C24: the resources of three.js are cleaned up: whenever a model group is
\* removed from the scene, because a new evaluation replaces it or because
\* the code became empty, the geometries and materials of its meshes are
\* disposed, so that no model dropped from the scene is left undisposed.
C24_RemovedIsDisposed ==
  [][\A id \in scene \ scene' : HeldWithMeshes(id) => id \in disposed']_allVars

----------------------------------------------------------------------------
(* C25 *)

\* The step in which the render of setSceneReady(true) takes place: of the
\* steps of the viewer it is SceneReady
ReadyRendered == sceneRef /\ ~sceneReady /\ sceneReady' = TRUE

\* React renders a state change that was made: the render of
\* setSceneReady(true) is not put off for ever
ViewLiveSpec == ViewSpec /\ WF_sceneReady(ReadyRendered)

\* The current text was the last one evaluated, and what it gave is shown:
\* its model is in the scene, or an error is displayed
CurrentShown ==
  /\ parseLog # <<>>
  /\ parseLog[Len(parseLog)] = openscadCode
  /\ \/ error # ""
     \/ /\ ~modelGroupRef.isNull
        /\ modelGroupRef.text = openscadCode
        /\ modelGroupRef.id \in scene

\* C25: there is no race with the initialisation of the scene: a text given
\* before the scene is ready is not evaluated then; the render in which
\* sceneReady becomes true evaluates the current text with no further change
\* of the code; and so, once the scene exists, the viewer is eventually ready
\* with the model of the current text in the scene or its error shown.
C25_ReadyEvaluates ==
  /\ [](~sceneReady => parseLog = <<>>)
  /\ [][(SceneReady /\ openscadCode # <<>>)
          => (parseLog' = <<openscadCode>> /\ CurrentShown')]_allVars
  /\ (sceneRef /\ ~sceneReady) ~> (sceneReady /\ (openscadCode = <<>> \/ CurrentShown))

\* A text was given before the scene was ready, and the render of sceneReady
\* evaluated it: no change of the code made the one evaluation there is
C25_Witness ==
  /\ sceneReady
  /\ openscadCode # <<>>
  /\ parseLog = <<openscadCode>>
  /\ burst.changes >= 1 /\ burst.evaluations = 0
  /\ ~modelGroupRef.isNull /\ modelGroupRef.id \in scene

----------------------------------------------------------------------------
(* C28 *)

\* C28: when parseOpenSCADToThreeJS of src/src/utils/openscadConverter.ts
\* returns without throwing, the group returned holds at least one mesh (not
\* only a child), so that the export of a model the viewer evaluated and
\* holds cannot fail for want of a mesh.
C28_ReturnedHasMesh ==
  /\ ~modelGroupRef.isNull => Len(TraverseMeshes(modelGroupRef.obj)) > 0
  /\ error # NoMeshesMessage

----------------------------------------------------------------------------
(* GeminiService.generateOpenSCAD of src/src/services/GeminiService.ts *)

\* A reply is a sequence of tokens, as the texts of the converter are.  The
\* tokens of a reply: the braces, the double quote, the colon and the comma of
\* JSON, the fence of a code block, the word openscad, white space, the escape
\* \n of a JSON string, and words of prose or code that hold none of these.
Quote == "\""
\* The three backquotes that open and close a code block, as one token
Fence == "<fence>"
EscapedNewline == "\\n"

\* 'Generated OpenSCAD code', lines 72, 81 and 88
DefaultExplanation == <<"Generated OpenSCAD code">>

GeminiPending == [status |-> "pending", code |-> <<>>, explanation |-> <<>>, message |-> ""]
GeminiReturned(c, e) == [status |-> "returned", code |-> c, explanation |-> e, message |-> ""]
GeminiThrown(m) == [status |-> "thrown", code |-> <<>>, explanation |-> <<>>, message |-> m]

\* text.match(/\{[\s\S]*\}/), line 67: from the first opening brace to the
\* last closing brace of the text; <<>> for null
JsonMatch(text) ==
  LET a == FirstIdx(text, 1, {"{"})
      b == LastIdx(text, 1, Len(text), {"}"}) IN
  IF a = 0 \/ b < a THEN <<>> ELSE SubSeq(text, a, b)

\* The characters of a JSON string: the escape \n stands for a line feed
Unescape(s) == [i \in 1..Len(s) |-> IF s[i] = EscapedNewline THEN "\n" ELSE s[i]]

JsonFailed == [ok |-> FALSE, members |-> <<>>]

\* The members of a JSON object from position i of t on, after the opening
\* brace or a comma: "key" : "value", then a comma and more members, or the
\* closing brace and the end of the text.  A line feed inside a string, a
\* value that is no string, and text after the closing brace are syntax errors.
RECURSIVE JsonMembers(_, _, _)
JsonMembers(t, i, acc) ==
  LET k1 == SkipWs(t, i)
      k2 == IF k1 <= Len(t) /\ t[k1] = Quote THEN FirstIdx(t, k1 + 1, {Quote}) ELSE 0
      c == IF k2 = 0 THEN Len(t) + 1 ELSE SkipWs(t, k2 + 1)
      v1 == IF c <= Len(t) /\ t[c] = ":" THEN SkipWs(t, c + 1) ELSE Len(t) + 1
      v2 == IF v1 <= Len(t) /\ t[v1] = Quote THEN FirstIdx(t, v1 + 1, {Quote}) ELSE 0
      e == IF v2 = 0 THEN Len(t) + 1 ELSE SkipWs(t, v2 + 1) IN
  IF e > Len(t) THEN JsonFailed
  ELSE IF \/ FirstIdx(SubSeq(t, k1 + 1, k2 - 1), 1, {"\n"}) # 0
          \/ FirstIdx(SubSeq(t, v1 + 1, v2 - 1), 1, {"\n"}) # 0 THEN JsonFailed
  ELSE LET member == [key |-> Unescape(SubSeq(t, k1 + 1, k2 - 1)),
                      value |-> Unescape(SubSeq(t, v1 + 1, v2 - 1))] IN
       IF t[e] = "," THEN JsonMembers(t, e + 1, Append(acc, member))
       ELSE IF t[e] = "}" /\ e = Len(t) THEN [ok |-> TRUE, members |-> Append(acc, member)]
       ELSE JsonFailed

\* JSON.parse of a text that begins with an opening brace and ends with a
\* closing one (line 69), for objects whose values are strings
JsonParse(t) ==
  LET i == SkipWs(t, 2) IN
  IF i = Len(t) THEN [ok |-> TRUE, members |-> <<>>]
  ELSE JsonMembers(t, 2, <<>>)

\* object.name of a parsed object: the value of the last member of that name,
\* <<>> standing for undefined as for the empty string (both are falsy)
Field(members, name) ==
  LET at == LastIdx([i \in 1..Len(members) |-> members[i].key], 1, Len(members), {<<name>>}) IN
  IF at = 0 THEN <<>> ELSE members[at].value

\* text.match of line 77, a fence, openscad if there, a line feed if there,
\* the shortest text up to the next fence as the group: the first group
\* of the match, [found |-> FALSE] for null
CodeMatch(text) ==
  LET f1 == FirstIdx(text, 1, {Fence})
      a == IF f1 # 0 /\ f1 < Len(text) /\ text[f1 + 1] = "openscad" THEN f1 + 2 ELSE f1 + 1
      b == IF f1 # 0 /\ a <= Len(text) /\ text[a] = "\n" THEN a + 1 ELSE a
      f2 == IF f1 = 0 THEN 0 ELSE FirstIdx(text, b, {Fence}) IN
  IF f2 = 0 THEN [found |-> FALSE, inner |-> <<>>]
  ELSE [found |-> TRUE, inner |-> SubSeq(text, b, f2 - 1)]

\* text.replace of line 81: every block from a fence to the next one is removed
RECURSIVE StripBlocks(_)
StripBlocks(text) ==
  LET f1 == FirstIdx(text, 1, {Fence})
      f2 == IF f1 = 0 THEN 0 ELSE FirstIdx(text, f1 + 1, {Fence}) IN
  IF f2 = 0 THEN text
  ELSE SubSeq(text, 1, f1 - 1) \o StripBlocks(SubSeq(text, f2 + 1, Len(text)))

\* x || fallback for strings
OrDefault(s, fallback) == IF s = <<>> THEN fallback ELSE s

\* The catch of lines 90-93
Caught(message) == GeminiThrown("Failed to generate code: " \o message)

\* What JSON.parse throws: a SyntaxError, its message worded by the engine
SyntaxErrorMessage == "Unexpected token in JSON"

\* Lines 66-74 for a text in which the braces were found
FromJson(json) ==
  LET object == JsonParse(json) IN
  IF object.ok
  THEN GeminiReturned(Field(object.members, "code"),
                      OrDefault(Field(object.members, "explanation"), DefaultExplanation))
  ELSE Caught(SyntaxErrorMessage)

\* Lines 76-83 for a text in which a code block was found
FromCodeBlock(text) ==
  GeminiReturned(Trim(CodeMatch(text).inner), OrDefault(Trim(StripBlocks(text)), DefaultExplanation))

\* The call from the await of line 62 on, as a function of what
\* model.generateContent gives
generateOpenSCAD(outcome) ==
  IF ~outcome.ok THEN Caught(outcome.message)
  ELSE IF JsonMatch(outcome.text) # <<>> THEN FromJson(JsonMatch(outcome.text))
  ELSE IF CodeMatch(outcome.text).found THEN FromCodeBlock(outcome.text)
  ELSE GeminiReturned(outcome.text, DefaultExplanation)

----------------------------------------------------------------------------
(* The state machine: one call of generateOpenSCAD *)

\* "text" as JSON writes it
Str(content) == <<Quote>> \o content \o <<Quote>>

\* { "name": "value", ... } on one line
Obj(members) ==
  LET Written[i \in 0..Len(members)] ==
        IF i = 0 THEN <<>>
        ELSE Written[i - 1] \o (IF i = 1 THEN <<>> ELSE <<",", " ">>)
               \o Str(<<members[i][1]>>) \o <<":", " ">> \o Str(members[i][2]) IN
  <<"{">> \o Written[Len(members)] \o <<"}">>

CubeCode == <<"cube(2);">>
ModuleCode == <<"module a()", " ", "{", " ", "cube(2);", " ", "}">>
ModuleEscaped == <<"module a()", " ", "{", EscapedNewline, "cube(2);", EscapedNewline, "}">>

\* What the model may write between the prose before and the prose after
ReplyBodies ==
  { Obj(<<<<"code", CubeCode>>, <<"explanation", <<"A cube">>>>>>),
    Obj(<<<<"code", ModuleEscaped>>, <<"explanation", <<"A module">>>>>>),
    Obj(<<<<"explanation", <<"Nothing to do">>>>>>),
    Obj(<<<<"code", <<>>>>>>),
    Obj(<<>>),
    <<"{", Quote, "code", Quote, ":", " ", "cube(2);", "}">>,
    <<Fence, "openscad", "\n">> \o CubeCode \o <<"\n", Fence>>,
    <<Fence, "\n">> \o ModuleCode \o <<"\n", Fence>>,
    <<Fence, "json", "\n">> \o Obj(<<<<"code", CubeCode>>, <<"explanation", <<"A cube">>>>>>)
       \o <<"\n", Fence>>,
    CubeCode,
    ModuleCode,
    <<>> }

ReplyBefore == {<<>>, <<"Here it is:", "\n">>}
ReplyAfter ==
  {<<>>, <<"\n", "Done.">>, <<"\n", Fence, "\n", "sphere(1);", "\n", Fence>>,
   <<"\n", "{", "more", "}">>}

Replies == {b \o m \o a : b \in ReplyBefore, m \in ReplyBodies, a \in ReplyAfter}

Resolved(text) == [ok |-> TRUE, text |-> text, message |-> ""]
\* The rejection of the API call: an Error with its message, or a value that
\* is no Error ('Unknown error', line 92)
Rejected(message) == [ok |-> FALSE, text |-> <<>>, message |-> message]

Outcomes ==
  {Resolved(t) : t \in Replies} \cup {Rejected("API key not valid"), Rejected("Unknown error")}

GeminiInit ==
  /\ gOutcome \in Outcomes
  /\ gPc = "start"
  /\ gResult = GeminiPending
  /\ ConverterIdle
  /\ StlIdle
  /\ ViewIdle
  /\ AppIdle

\* Lines 62-64: the reply of the model is awaited; a rejection goes to the catch
GenerateContent ==
  /\ gPc = "start"
  /\ IF gOutcome.ok
     THEN gPc' = "json" /\ gResult' = gResult
     ELSE gPc' = "done" /\ gResult' = Caught(gOutcome.message)
  /\ UNCHANGED gOutcome
  /\ UNCHANGED notGemini

\* Lines 66-74: braces found, the text between them is parsed as JSON; what
\* JSON.parse throws goes to the catch
TryJson ==
  /\ gPc = "json"
  /\ IF JsonMatch(gOutcome.text) # <<>>
     THEN gPc' = "done" /\ gResult' = FromJson(JsonMatch(gOutcome.text))
     ELSE gPc' = "block" /\ gResult' = gResult
  /\ UNCHANGED gOutcome
  /\ UNCHANGED notGemini

\* Lines 76-83: the first code block
TryCodeBlock ==
  /\ gPc = "block"
  /\ IF CodeMatch(gOutcome.text).found
     THEN gPc' = "done" /\ gResult' = FromCodeBlock(gOutcome.text)
     ELSE gPc' = "whole" /\ gResult' = gResult
  /\ UNCHANGED gOutcome
  /\ UNCHANGED notGemini

\* Lines 85-89: the whole reply is the code
ReturnWhole ==
  /\ gPc = "whole"
  /\ gPc' = "done"
  /\ gResult' = GeminiReturned(gOutcome.text, DefaultExplanation)
  /\ UNCHANGED gOutcome
  /\ UNCHANGED notGemini

GeminiNext ==
  \/ GenerateContent
  \/ TryJson
  \/ TryCodeBlock
  \/ ReturnWhole

GeminiSpec == GeminiInit /\ [][GeminiNext]_allVars

----------------------------------------------------------------------------
(* C29 *)

\* The text has a JSON object in it that JSON.parse accepts: from some opening
\* brace to some closing brace
ParseableObjects(text) ==
  {<<a, b>> \in (1..Len(text)) \X (1..Len(text)) :
     /\ a < b /\ text[a] = "{" /\ text[b] = "}"
     /\ JsonParse(SubSeq(text, a, b)).ok}

\* C29: generateOpenSCAD falls back in three steps: a reply that holds a JSON
\* object that can be parsed gives the code and explanation of the object;
\* otherwise a reply with a fenced code block gives the trimmed text of its
\* first block as the code, also when that code holds braces; otherwise the
\* whole reply is the code.  An error is thrown only when the API call fails.
C29_ThreeStepFallback ==
  (gPc = "done" /\ gOutcome.ok) =>
    /\ gResult.status = "returned"
    /\ IF ParseableObjects(gOutcome.text) # {}
       THEN \E ab \in ParseableObjects(gOutcome.text) :
              gResult.code = Field(JsonParse(SubSeq(gOutcome.text, ab[1], ab[2])).members, "code")
       ELSE IF CodeMatch(gOutcome.text).found
       THEN gResult.code = Trim(CodeMatch(gOutcome.text).inner)
       ELSE gResult.code = gOutcome.text

----------------------------------------------------------------------------
(* The App component of src/unnamed/part_000 *)

\* At most MaxSent calls of generateOpenSCAD are made
MaxSent == 2

ApiKeyItem == "gemini_api_key"

\* 'your_gemini_api_key_here', line 32
EnvPlaceholder == "your_gemini_api_key_here"

\* The values of VITE_GEMINI_API_KEY: not set, the placeholder, a key
EnvValues == {"", EnvPlaceholder, "env-key"}

\* The keys typed into the key form (the input is required: never empty)
Keys == {"key-1", "key-2"}

\* The text typed into the chat form, and the example prompts of ChatInterface
\* (GeminiService.ts 472-480)
FormPrompts == {<<"Make it bigger">>}
ExamplePrompts == {<<"Create a simple cube">>, <<"Create a gear with 20 teeth">>}

\* The text typed into the code editor
EditedCodes == {<<"sphere(1);">>}

\* What the API gives to a call made by App
AppOutcomes ==
  { Resolved(Obj(<<<<"code", CubeCode>>, <<"explanation", <<"A cube">>>>>>)),
    Resolved(<<Fence, "\n">> \o ModuleCode \o <<"\n", Fence>>),
    Rejected("API key not valid") }

\* localStorage.getItem: "" stands for null (both are falsy)
getItem(name) == IF name \in DOMAIN localStorage THEN localStorage[name] ELSE ""

\* localStorage.setItem
setItem(name, value) ==
  [n \in DOMAIN localStorage \cup {name} |-> IF n = name THEN value ELSE localStorage[n]]

\* localStorage.removeItem
removeItem(name) == [n \in DOMAIN localStorage \ {name} |-> localStorage[n]]

\* The messages of lines 48, 59-63 and 68-71
UserMessage(content) ==
  [role |-> "user", content |-> content, hasCode |-> FALSE, code |-> <<>>]
AssistantMessage(response) ==
  [role |-> "assistant", content |-> response.explanation, hasCode |-> TRUE,
   code |-> response.code]
ErrorMessage(message) ==
  [role |-> "assistant", content |-> <<"Error: " \o message>>, hasCode |-> FALSE,
   code |-> <<>>]

\* A start in which the key of the environment comes before the saved one
\* (for comparison)
StartEnvFirst ==
  /\ ~mounted
  /\ mounted' = TRUE
  /\ \E savedApiKey \in {getItem(ApiKeyItem)} :
       IF envApiKey # "" /\ envApiKey # EnvPlaceholder
       THEN /\ showApiKeyInput' = FALSE
            /\ geminiServiceRef' = envApiKey
       ELSE IF savedApiKey # ""
       THEN /\ showApiKeyInput' = FALSE
            /\ geminiServiceRef' = savedApiKey
       ELSE UNCHANGED <<showApiKeyInput, geminiServiceRef>>
  /\ appLast' = "Start"
  /\ UNCHANGED <<localStorage, envApiKey, messages, isLoading, inflight, sent, resetClean,
                 openscadCode>>
  /\ UNCHANGED notApp

\* The page is opened: App is mounted with its initial state and the effect of
\* lines 21-36 runs
Start ==
  /\ ~mounted
  /\ mounted' = TRUE
  /\ \E savedApiKey \in {getItem(ApiKeyItem)} :
       IF savedApiKey # ""
       THEN /\ showApiKeyInput' = FALSE
            /\ geminiServiceRef' = savedApiKey
       ELSE IF envApiKey # "" /\ envApiKey # EnvPlaceholder
       THEN /\ showApiKeyInput' = FALSE
            /\ geminiServiceRef' = envApiKey
       ELSE UNCHANGED <<showApiKeyInput, geminiServiceRef>>
  /\ appLast' = "Start"
  /\ UNCHANGED <<localStorage, envApiKey, messages, isLoading, inflight, sent, resetClean,
                 openscadCode>>
  /\ UNCHANGED notApp

\* The page is closed or loaded again: the state of App is lost, the calls
\* under way have no one to answer to, localStorage stays
Reload ==
  /\ mounted
  /\ mounted' = FALSE
  /\ messages' = <<>>
  /\ openscadCode' = <<>>
  /\ isLoading' = FALSE
  /\ showApiKeyInput' = TRUE
  /\ geminiServiceRef' = NoService
  /\ inflight' = {}
  /\ resetClean' = FALSE
  /\ appLast' = "Reload"
  /\ UNCHANGED <<localStorage, envApiKey, sent>>
  /\ UNCHANGED notApp

\* handleApiKeySubmit (lines 38-43), called by the form of the key screen
handleApiKeySubmit ==
  /\ mounted /\ showApiKeyInput
  /\ \E key \in Keys :
       /\ localStorage' = setItem(ApiKeyItem, key)
       /\ geminiServiceRef' = key
  /\ showApiKeyInput' = FALSE
  /\ appLast' = "handleApiKeySubmit"
  /\ UNCHANGED <<envApiKey, mounted, messages, isLoading, inflight, sent, resetClean,
                 openscadCode>>
  /\ UNCHANGED notApp

\* handleSendMessage (lines 45-57) up to the await
onSendMessage(userMessage) ==
  /\ IF geminiServiceRef = NoService
     THEN UNCHANGED <<messages, isLoading, inflight, sent, resetClean>>
     ELSE /\ messages' = Append(messages, UserMessage(userMessage))
          /\ isLoading' = TRUE
          /\ inflight' = inflight \cup {[id |-> sent + 1, userMessage |-> userMessage]}
          /\ sent' = sent + 1
          /\ resetClean' = FALSE
  /\ appLast' = "handleSendMessage"
  /\ UNCHANGED <<localStorage, envApiKey, mounted, showApiKeyInput, geminiServiceRef,
                 openscadCode>>
  /\ UNCHANGED notApp

\* ChatInterface.handleSubmit (GeminiService.ts 456-462): the form is sent
\* with a text that is not blank, and not while isLoading
handleSubmit ==
  /\ mounted /\ ~showApiKeyInput
  /\ sent < MaxSent
  /\ ~isLoading
  /\ \E input \in FormPrompts : onSendMessage(input)

\* A click on an example prompt (GeminiService.ts 467-482): the buttons are
\* shown while there is no message
ExamplePrompt ==
  /\ mounted /\ ~showApiKeyInput
  /\ sent < MaxSent
  /\ Len(messages) = 0
  /\ \E prompt \in ExamplePrompts : onSendMessage(prompt)

\* A continuation that clears the code when the call failed (for comparison)
ResponseArrivesClearsCode ==
  /\ mounted
  /\ \E request \in inflight, outcome \in AppOutcomes :
       /\ inflight' = inflight \ {request}
       /\ \E response \in {generateOpenSCAD(outcome)} :
            IF response.status = "returned"
            THEN /\ messages' = Append(messages, AssistantMessage(response))
                 /\ openscadCode' = response.code
            ELSE /\ messages' = Append(messages, ErrorMessage(response.message))
                 /\ openscadCode' = <<>>
  /\ isLoading' = FALSE
  /\ appLast' = "ResponseArrives"
  /\ UNCHANGED <<localStorage, envApiKey, mounted, showApiKeyInput, geminiServiceRef, sent,
                 resetClean>>
  /\ UNCHANGED notApp

\* handleSendMessage from the await on (lines 53-75): the call settles
ResponseArrives ==
  /\ mounted
  /\ \E request \in inflight, outcome \in AppOutcomes :
       /\ inflight' = inflight \ {request}
       /\ \E response \in {generateOpenSCAD(outcome)} :
            IF response.status = "returned"
            THEN /\ messages' = Append(messages, AssistantMessage(response))
                 /\ openscadCode' = response.code
            ELSE /\ messages' = Append(messages, ErrorMessage(response.message))
                 /\ openscadCode' = openscadCode
  /\ isLoading' = FALSE
  /\ appLast' = "ResponseArrives"
  /\ UNCHANGED <<localStorage, envApiKey, mounted, showApiKeyInput, geminiServiceRef, sent,
                 resetClean>>
  /\ UNCHANGED notApp

\* handleCodeEdit (lines 78-80), called by the editor
handleCodeEdit ==
  /\ mounted /\ ~showApiKeyInput
  /\ \E newCode \in EditedCodes : openscadCode' = newCode
  /\ resetClean' = FALSE
  /\ appLast' = "handleCodeEdit"
  /\ UNCHANGED <<localStorage, envApiKey, mounted, messages, isLoading, showApiKeyInput,
                 geminiServiceRef, inflight, sent>>
  /\ UNCHANGED notApp

\* The click handler of Reset Chat that clears the saved key too (for comparison)
ResetChatAndKey ==
  /\ mounted /\ ~showApiKeyInput
  /\ localStorage' = removeItem(ApiKeyItem)
  /\ messages' = <<>>
  /\ openscadCode' = <<>>
  /\ resetClean' = TRUE
  /\ appLast' = "ResetChat"
  /\ UNCHANGED <<envApiKey, mounted, isLoading, showApiKeyInput, geminiServiceRef,
                 inflight, sent>>
  /\ UNCHANGED notApp

\* The click handler of Reset Chat (lines 120-123)
ResetChat ==
  /\ mounted /\ ~showApiKeyInput
  /\ messages' = <<>>
  /\ openscadCode' = <<>>
  /\ resetClean' = TRUE
  /\ appLast' = "ResetChat"
  /\ UNCHANGED <<localStorage, envApiKey, mounted, isLoading, showApiKeyInput,
                 geminiServiceRef, inflight, sent>>
  /\ UNCHANGED notApp

\* A click handler of Change API Key that leaves the saved key (for comparison)
ChangeApiKeyKeepsItem ==
  /\ mounted /\ ~showApiKeyInput
  /\ showApiKeyInput' = TRUE
  /\ geminiServiceRef' = NoService
  /\ messages' = <<>>
  /\ openscadCode' = <<>>
  /\ resetClean' = TRUE
  /\ appLast' = "ChangeApiKey"
  /\ UNCHANGED <<localStorage, envApiKey, mounted, isLoading, inflight, sent>>
  /\ UNCHANGED notApp

\* The click handler of Change API Key (lines 126-132)
ChangeApiKey ==
  /\ mounted /\ ~showApiKeyInput
  /\ localStorage' = removeItem(ApiKeyItem)
  /\ showApiKeyInput' = TRUE
  /\ geminiServiceRef' = NoService
  /\ messages' = <<>>
  /\ openscadCode' = <<>>
  /\ resetClean' = TRUE
  /\ appLast' = "ChangeApiKey"
  /\ UNCHANGED <<envApiKey, mounted, isLoading, inflight, sent>>
  /\ UNCHANGED notApp

AppInit ==
  /\ localStorage = NoItems
  /\ envApiKey \in EnvValues
  /\ mounted = FALSE
  /\ messages = <<>>
  /\ isLoading = FALSE
  /\ showApiKeyInput = TRUE
  /\ geminiServiceRef = NoService
  /\ inflight = {}
  /\ sent = 0
  /\ appLast = ""
  /\ resetClean = FALSE
  /\ ViewIdle
  /\ ConverterIdle
  /\ StlIdle
  /\ GeminiIdle

AppNext ==
  \/ Start
  \/ Reload
  \/ handleApiKeySubmit
  \/ handleSubmit
  \/ ExamplePrompt
  \/ ResponseArrives
  \/ handleCodeEdit
  \/ ResetChat
  \/ ChangeApiKey

AppSpec == AppInit /\ [][AppNext]_allVars

----------------------------------------------------------------------------
(* C21 *)

\* C21: Reset Chat empties the conversation and the code and changes nothing
\* else: the key saved in localStorage, the service held and the flag of the
\* key screen stay as they were, and so do isLoading and the calls under way.
C21_ResetChatFrame ==
  [][ResetChat =>
       /\ messages' = <<>>
       /\ openscadCode' = <<>>
       /\ UNCHANGED <<localStorage, geminiServiceRef, showApiKeyInput, isLoading, inflight>>]_allVars

\* Reset Chat was clicked with a key saved and a conversation to clear
C21_Witness ==
  /\ appLast = "ResetChat"
  /\ sent > 0
  /\ messages = <<>> /\ openscadCode = <<>>
  /\ getItem(ApiKeyItem) \in Keys
  /\ geminiServiceRef = getItem(ApiKeyItem)
  /\ ~showApiKeyInput

----------------------------------------------------------------------------
(* C22 *)

\* C22: Change API Key removes the saved key from localStorage, drops the
\* service, brings back the key screen and clears the conversation and the
\* code; while the key screen is shown no message is sent; and the key then
\* submitted is the one saved key and the key of the service.
C22_ChangeApiKey ==
  /\ [][ChangeApiKey =>
          /\ ApiKeyItem \notin DOMAIN localStorage'
          /\ geminiServiceRef' = NoService
          /\ showApiKeyInput' = TRUE
          /\ messages' = <<>>
          /\ openscadCode' = <<>>]_allVars
  /\ [][(mounted /\ showApiKeyInput) => (sent' = sent /\ inflight' \subseteq inflight)]_allVars
  /\ [][handleApiKeySubmit =>
          /\ geminiServiceRef' \in Keys
          /\ localStorage' = [n \in {ApiKeyItem} |-> geminiServiceRef']
          /\ showApiKeyInput' = FALSE]_allVars

\* A second key was submitted after Change API Key removed the first
C22_Witness ==
  /\ appLast = "handleApiKeySubmit"
  /\ resetClean
  /\ sent > 0
  /\ localStorage = [n \in {ApiKeyItem} |-> "key-2"]
  /\ geminiServiceRef = "key-2"
  /\ ~showApiKeyInput

----------------------------------------------------------------------------
(* C23 *)

\* C23: the key makes the round trip through localStorage: the key submitted
\* is saved, nothing but a submission or Change API Key changes what is saved,
\* and every start of the application takes the saved key for the service and
\* shows no key screen, the saved key coming before the key of the
\* environment; with no key saved, a key of the environment that is not the
\* placeholder is taken; otherwise the key screen is shown.
C23_KeyRoundTrip ==
  /\ [][handleApiKeySubmit =>
          (getItem(ApiKeyItem) \in Keys /\ geminiServiceRef = getItem(ApiKeyItem))']_allVars
  /\ [][localStorage' # localStorage => (handleApiKeySubmit \/ ChangeApiKey)]_allVars
  /\ [][Start =>
          IF getItem(ApiKeyItem) # ""
          THEN geminiServiceRef' = getItem(ApiKeyItem) /\ ~showApiKeyInput'
          ELSE IF envApiKey \notin {"", EnvPlaceholder}
          THEN geminiServiceRef' = envApiKey /\ ~showApiKeyInput'
          ELSE geminiServiceRef' = NoService /\ showApiKeyInput']_allVars

\* The application was started with a saved key and a key in the environment
C23_Witness ==
  /\ appLast = "Start"
  /\ envApiKey = "env-key"
  /\ getItem(ApiKeyItem) = "key-1"
  /\ geminiServiceRef = "key-1"
  /\ ~showApiKeyInput

----------------------------------------------------------------------------
(* C26 *)

\* C26: at most one call of generateOpenSCAD is under way at any time, and
\* isLoading is true exactly while one is, whatever the order of form
\* submissions, clicks on example prompts, clicks on Reset Chat and arrivals
\* of responses.
C26_OneInFlight ==
  /\ Cardinality(inflight) <= 1
  /\ isLoading <=> inflight # {}

----------------------------------------------------------------------------
(* C27 *)

\* C27: a response or an error of a call made before Reset Chat or Change API
\* Key is not applied after it: from the reset until the user sends a message
\* or edits the code, the conversation and the code stay empty.
C27_NoStaleResponse ==
  resetClean => (messages = <<>> /\ openscadCode = <<>>)

----------------------------------------------------------------------------
(* C30 *)

\* What the continuation of handleSendMessage does for a settled call
SettledAs(response) ==
  /\ isLoading' = FALSE
  /\ IF response.status = "returned"
     THEN /\ messages' = Append(messages, [role |-> "assistant",
                                           content |-> response.explanation,
                                           hasCode |-> TRUE, code |-> response.code])
          /\ openscadCode' = response.code
     ELSE /\ messages' = Append(messages, [role |-> "assistant",
                                           content |-> <<"Error: " \o response.message>>,
                                           hasCode |-> FALSE, code |-> <<>>])
          /\ openscadCode' = openscadCode

\* C30: a call of handleSendMessage with a service held appends the user
\* message and, when its request settles, exactly one assistant message: the
\* explanation with the generated code when the request succeeded, an
\* "Error: ..." message without code when it failed; isLoading is false after;
\* the code becomes the generated code on success and is unchanged on failure.
\* A call with no service held changes nothing.
C30_SendSettles ==
  /\ [][(appLast' = "handleSendMessage" /\ (handleSubmit \/ ExamplePrompt)) =>
          IF geminiServiceRef = NoService
          THEN UNCHANGED <<messages, isLoading, openscadCode, inflight, sent>>
          ELSE /\ Len(messages') = Len(messages) + 1
               /\ SubSeq(messages', 1, Len(messages)) = messages
               /\ messages'[Len(messages')].role = "user"
               /\ isLoading'
               /\ Cardinality(inflight') = Cardinality(inflight) + 1
               /\ openscadCode' = openscadCode]_allVars
  /\ [][ResponseArrives =>
          /\ Cardinality(inflight') = Cardinality(inflight) - 1
          /\ \E outcome \in AppOutcomes : SettledAs(generateOpenSCAD(outcome))]_allVars

\* One call was made and settled with a response: the user message, then the
\* assistant message with the code that is now the code of the editor
C30_Witness ==
  /\ appLast = "ResponseArrives"
  /\ ~isLoading /\ inflight = {}
  /\ Len(messages) = 2
  /\ messages[1].role = "user"
  /\ messages[2].role = "assistant" /\ messages[2].hasCode
  /\ openscadCode = messages[2].code
  /\ openscadCode = CubeCode

====
